---------------------------- MODULE Spec2Model ----------------------------
(***************************************************************************)
(* A model of the mev-commit TimescaleDB ingestion pipeline:               *)
(*   src/pipeline/db.py      the shared connection, the cursor read and    *)
(*                           the schema-evolving writer                    *)
(*   src/pipeline/queries.py the fetch wrapper                             *)
(*   src/pipeline/materialized_views.py  the views and the staked merge    *)
(*   src/main.py             the orchestrator (attempts, cycles, tasks)    *)
(* The storage backend is PostgreSQL reached through one psycopg           *)
(* connection: statements run inside an implicit transaction unless the    *)
(* connection is in autocommit mode, DDL is transactional, a failed        *)
(* statement aborts the open transaction until the next rollback.          *)
(***************************************************************************)
EXTENDS Integers, Sequences, FiniteSets, Bags, TLC

(***************************************************************************)
(* Bounds of the model.                                                    *)
(***************************************************************************)
MaxBlock == 2          \* block numbers the source can deliver: 1..MaxBlock
MaxRows == 1           \* rows in one fetched batch: 0..MaxRows

(***************************************************************************)
(* Strings.  Names are tabulated over the finite universe of names the     *)
(* model uses; str.lower(), str.strip(), the quoting of                    *)
(* escape_column_name and str.replace('"', '') are given by their value on *)
(* each name of that universe.                                             *)
(***************************************************************************)

\* src/pipeline/db.py:6-14
RESERVED_KEYWORDS ==
    { "window", "user", "order", "group", "default", "check", "index",
      "primary", "foreign", "references", "constraint", "select", "where",
      "from", "table", "column", "limit", "to", "into", "update", "delete",
      "insert", "values", "value", "any", "some", "all", "distinct", "as",
      "between", "by", "join", "cross", "inner", "outer", "left", "right",
      "natural", "union", "intersect", "except", "case", "when", "then", "else",
      "end", "desc", "asc", "nulls", "first", "last", "grant", "with" }

\* str.lower() on the names of the model
StrLower(s) ==
    CASE s = "Hash" -> "hash"
      [] s = "Window" -> "window"
      [] s = " Window" -> " window"
      [] s = "Amount" -> "amount"
      [] s = "OpenedCommitmentStored" -> "openedcommitmentstored"
      [] s = "OpenedCommitmentStoredV2" -> "openedcommitmentstoredv2"
      [] s = "Staked" -> "staked"
      [] s = "\"Window\"" -> "\"window\""
      [] s = "commitmentIndex" -> "commitmentindex"
      [] s = "txnHash" -> "txnhash"
      [] s = "blockNumber" -> "blocknumber"
      [] s = "bidAmt" -> "bidamt"
      [] OTHER -> s

\* str.strip() on the names of the model
StrStrip(s) ==
    CASE s = " Window" -> "Window"
      [] s = " window" -> "window"
      [] OTHER -> s

\* name.replace('"', '') on the names of the model
StrUnquote(s) ==
    CASE s = "\"window\"" -> "window"
      [] s = "\"Window\"" -> "Window"
      [] OTHER -> s

normalize_table_name(table_name) == StrStrip(StrLower(table_name))

normalize_column_name(name) == StrStrip(StrLower(name))

escape_column_name(name) ==
    \* f'"{name}"' on the names of the model
    LET StrQuote(s) ==
            CASE s = "window" -> "\"window\""
              [] s = "Window" -> "\"Window\""
              [] OTHER -> s
    IN
    IF StrLower(name) \in RESERVED_KEYWORDS THEN StrQuote(name) ELSE name

\* The name PostgreSQL records for an identifier written in a statement:
\* a quoted identifier keeps its spelling, an unquoted one is folded to
\* lower case.
PgIdentifier(ident) ==
    LET IsQuoted(s) == s \in {"\"window\"", "\"Window\""}
    IN
    IF IsQuoted(ident) THEN StrUnquote(ident) ELSE StrLower(ident)

get_primary_key_columns(table_name) ==
    IF table_name \in {"staked", "staked_old"}
    THEN <<"block_number", "valblspubkey">>
    ELSE <<"block_number", "hash">>

SeqToSet(sq) == { sq[i] : i \in DOMAIN sq }

(***************************************************************************)
(* Column typing policy.                                                   *)
(***************************************************************************)

\* faulty variant: the rules on the dtype come before the rules on the name
get_timescale_type_by_dtype(name, pl_dtype) ==
    IF pl_dtype = "Datetime" THEN "TIMESTAMPTZ"
    ELSE IF pl_dtype = "Int64" THEN "BIGINT"
    ELSE IF pl_dtype = "Float64" THEN "DOUBLE PRECISION"
    ELSE IF pl_dtype = "Boolean" THEN "BOOLEAN"
    ELSE IF pl_dtype = "UInt64" THEN "NUMERIC(78)"
    ELSE IF StrLower(name) = "block_number" THEN "BIGINT"
    ELSE "TEXT"

get_timescale_type(name, pl_dtype) ==
    IF StrLower(name) = "block_number" THEN "BIGINT"
    ELSE IF StrLower(name) \in {"hash", "valblspubkey"} THEN "TEXT"
    ELSE IF pl_dtype = "Datetime" THEN "TIMESTAMPTZ"
    ELSE IF pl_dtype = "Int64" THEN "BIGINT"
    ELSE IF pl_dtype = "Float64" THEN "DOUBLE PRECISION"
    ELSE IF pl_dtype = "Boolean" THEN "BOOLEAN"
    ELSE IF pl_dtype = "UInt64" THEN "NUMERIC(78)"
    ELSE "TEXT"

\* schema: a function from column names to dtypes; the result maps each
\* escaped column name to its storage type.
convert_schema_to_timescale(schema) ==
    { <<escape_column_name(name), get_timescale_type(name, schema[name])>> :
        name \in DOMAIN schema }


(***************************************************************************)
(* Batches.  A batch (a polars DataFrame) is a record                      *)
(*   schema : a function from column names to dtypes                       *)
(*   rows   : a sequence of rows, each a function from the column names to *)
(*            cell values                                                  *)
(* block_number cells are integers; every other cell is a string.          *)
(***************************************************************************)
\* the value a payload cell of a dtype holds for a seed
PayloadValue(dtype, v) ==
    IF dtype = "Utf8"
    THEN (IF v = 1 THEN "a" ELSE "b")
    ELSE (IF v = 1 THEN "1" ELSE "2")

CellValue(col, dtype, bn, v) ==
    LET KeyColumns == {"hash", "Hash", "valblspubkey"}
    IN
    IF col = "block_number" THEN bn
    ELSE IF col \in KeyColumns THEN "0xaa"
    ELSE PayloadValue(dtype, v)

MakeBatch(schema, blocks, v) ==
    [ schema |-> schema,
      rows |-> [ i \in DOMAIN blocks |->
                   [ c \in DOMAIN schema |-> CellValue(c, schema[c], blocks[i], v) ] ] ]

EmptyBatch == [ schema |-> << >>, rows |-> << >> ]

\* faulty variant: no batch is taken for empty
is_empty_never(df) == FALSE

\* polars' df.is_empty(): the batch has no rows
is_empty(df) == df.rows = << >>

\* The column sets and dtypes the event source delivers for a table whose
\* second primary-key column is k (spelled kRaw by the source), each with
\* the payload seeds it is delivered with.
SchemasFor(k, kRaw) ==
    { <<[ c \in {"block_number", k} |-> IF c = k THEN "Utf8" ELSE "UInt64" ], 1>>,
      <<[ c \in {"block_number", k, "amount"} |->
           IF c = k THEN "Utf8" ELSE "UInt64" ], 1>>,
      <<[ c \in {"block_number", k, "amount"} |->
           IF c = k THEN "Utf8" ELSE "UInt64" ], 2>>,
      <<[ c \in {"block_number", kRaw, " Window"} |->
           IF c = "block_number" THEN "UInt64" ELSE "Utf8" ], 1>>,
      <<[ c \in {"block_number", k, "Amount", " Window"} |->
           IF c = "block_number" THEN "UInt64" ELSE "Utf8" ], 1>>,
      <<[ c \in {"block_number", "amount"} |-> "UInt64" ], 1>>,
      <<[ c \in {k, "amount"} |-> IF c = k THEN "Utf8" ELSE "UInt64" ], 1>> }

\* block numbers of the rows of a batch: non-decreasing, 1..MaxRows of them
BlockLists ==
    { bl \in UNION { [1..n -> 1..MaxBlock] : n \in 1..MaxRows } :
        \A i \in DOMAIN bl : \A j \in DOMAIN bl : i < j => bl[i] <= bl[j] }

StreamNames == {"OpenedCommitmentStored", "OpenedCommitmentStoredV2", "Staked"}

TableNames ==
    { normalize_table_name(s) : s \in StreamNames }
        \cup {"unopenedcommitmentstored", "commitmentprocessed", "l1transactions",
              "staked_old"}

Batches ==
    \* every non-empty batch the source can deliver for a stream
    LET BatchesFor(s) ==
            LET RawKeyColumn(stream) ==
                    IF normalize_table_name(stream) = "staked" THEN "valblspubkey" ELSE "Hash"
            IN
            LET k == get_primary_key_columns(normalize_table_name(s))[2]
            IN  { MakeBatch(sv[1], bl, sv[2]) :
                    sv \in SchemasFor(k, RawKeyColumn(s)), bl \in BlockLists }
    IN
           [ s \in StreamNames |-> BatchesFor(s) ]

(***************************************************************************)
(* Storage.  A table is a record                                           *)
(*   exists : whether information_schema.tables lists it                   *)
(*   cols   : a function from column names to storage types                *)
(*   pk     : the columns of its PRIMARY KEY                               *)
(*   rows   : a bag of rows, each a function from the columns it was       *)
(*            inserted with to values (every other column is NULL)         *)
(***************************************************************************)
NoTable == [ exists |-> FALSE, cols |-> << >>, pk |-> {}, rows |-> EmptyBag ]

NoTables == [ t \in TableNames |-> NoTable ]

\* whether the server stores a value of a dtype into a column of a type
Accepts(storage, dtype) ==
    CASE storage = "TEXT" -> TRUE
      [] storage = "BIGINT" -> dtype \in {"Int64", "Int32", "UInt64"}
      [] storage = "NUMERIC(78)" -> dtype \in {"Int64", "Int32", "UInt64", "Float64"}
      [] storage = "DOUBLE PRECISION" -> dtype \in {"Int64", "Int32", "UInt64", "Float64"}
      [] storage = "BOOLEAN" -> dtype = "Boolean"
      [] storage = "TIMESTAMPTZ" -> dtype = "Datetime"
      [] OTHER -> FALSE

\* faulty variant: the commit ends the transaction without making its
\* changes durable
ConnCommitLost(conn) == [conn EXCEPT !.tx = "IDLE"]

(***************************************************************************)
(* The connection: conn = [db, work, tx, autocommit, broken]               *)
(*   db         the committed tables                                       *)
(*   work       the tables as the connection sees them (its uncommitted    *)
(*              changes included)                                          *)
(*   tx         psycopg's transaction_status: IDLE, INTRANS or INERROR     *)
(*   autocommit the connection's autocommit attribute                      *)
(*   broken     the link to the server is lost: every statement, commit    *)
(*              and rollback raises, the server has discarded the          *)
(*              uncommitted changes                                        *)
(***************************************************************************)
ConnCommit(conn) ==
    IF conn.tx = "INERROR"
    THEN [conn EXCEPT !.work = conn.db, !.tx = "IDLE"]
    ELSE [conn EXCEPT !.db = conn.work, !.tx = "IDLE"]

ConnRollback(conn) == [conn EXCEPT !.work = conn.db, !.tx = "IDLE"]

\* a statement that ran: outside autocommit it opens the transaction, in
\* autocommit its effect is committed at once
ConnExecuted(conn, tables) ==
    IF conn.autocommit
    THEN [conn EXCEPT !.db = tables, !.work = tables]
    ELSE [conn EXCEPT !.work = tables, !.tx = "INTRANS"]

\* a statement that failed: outside autocommit the transaction is aborted
ConnFailed(conn) ==
    IF conn.autocommit \/ conn.broken THEN conn ELSE [conn EXCEPT !.tx = "INERROR"]


\* whether a statement issued now raises: the link is lost, the open
\* transaction is aborted, or the storage backend fails the statement
StatementRaises(conn, fails) == conn.broken \/ conn.tx = "INERROR" \/ fails

(***************************************************************************)
(* create_or_update_event_table.  df is a batch whose columns are already  *)
(* renamed; the result is [conn, raised].                                  *)
(***************************************************************************)
\* faulty variant: the primary-key check finds nothing missing
NoMissingColumns(table_name, df) == {}

MissingPrimaryKeyColumns(table_name, df) ==
    { col \in SeqToSet(get_primary_key_columns(table_name)) :
        col \notin DOMAIN df.schema }

\* CREATE TABLE table_name (columns, PRIMARY KEY (primary_key)); it fails
\* when two columns get the same name or a key column is no column
CreateTable(tables, table_name, schema_columns, primary_key) ==
    LET names == { PgIdentifier(sc[1]) : sc \in schema_columns }
        pk == { PgIdentifier(k) : k \in primary_key }
    IN  IF Cardinality(names) # Cardinality(schema_columns) \/ ~(pk \subseteq names)
        THEN [ok |-> FALSE, tables |-> tables]
        ELSE [ok |-> TRUE,
              tables |-> [tables EXCEPT ![table_name] =
                 [ exists |-> TRUE,
                   cols |-> [ n \in names |->
                       (CHOOSE sc \in schema_columns : PgIdentifier(sc[1]) = n)[2] ],
                   pk |-> pk,
                   rows |-> EmptyBag ]]]

\* faulty variant: the quotes of an escaped name are not removed before the
\* name is looked up among the existing columns
NewColumnsQuotesKept(table, schema_columns) ==
    LET existing_columns == { StrLower(c) : c \in DOMAIN table.cols }
    IN  { sc \in schema_columns : StrLower(sc[1]) \notin existing_columns }

\* faulty variant: every column of the batch is added, existing or not
NewColumnsUnchecked(table, schema_columns) == schema_columns

\* the columns the ALTER TABLE loop adds: those whose clean name is not an
\* existing column
NewColumns(table, schema_columns) ==
    LET existing_columns == { StrLower(c) : c \in DOMAIN table.cols }
    IN  { sc \in schema_columns :
            StrLower(StrUnquote(sc[1])) \notin existing_columns }

\* ALTER TABLE table_name ADD COLUMN name dtype, for each new column; it
\* fails when the table already has a column of that name
AddColumns(tables, table_name, schema_columns) ==
    LET table == tables[table_name]
        added == NewColumns(table, schema_columns)
        names == { PgIdentifier(sc[1]) : sc \in added }
    IN  IF names \cap DOMAIN table.cols # {} \/ Cardinality(names) # Cardinality(added)
        THEN [ok |-> FALSE, tables |-> tables]
        ELSE [ok |-> TRUE,
              tables |-> [tables EXCEPT ![table_name].cols =
                 [ n \in DOMAIN table.cols \cup names |->
                     IF n \in DOMAIN table.cols THEN table.cols[n]
                     ELSE (CHOOSE sc \in added : PgIdentifier(sc[1]) = n)[2] ]]]

create_or_update_event_table(conn, table_name0, df, ddl_fails) ==
    IF is_empty(df) THEN [conn |-> conn, raised |-> FALSE]
    ELSE
    LET table_name == normalize_table_name(table_name0)
        schema_columns == convert_schema_to_timescale(df.schema)
        primary_key == { escape_column_name(col) :
                           col \in SeqToSet(get_primary_key_columns(table_name)) }
    IN  IF MissingPrimaryKeyColumns(table_name, df) # {}
        THEN [conn |-> conn, raised |-> TRUE]
        ELSE IF StatementRaises(conn, ddl_fails)
        THEN [conn |-> IF conn.broken THEN conn ELSE ConnRollback(ConnFailed(conn)),
              raised |-> TRUE]
        ELSE
        LET ddl == IF ~conn.work[table_name].exists
                   THEN CreateTable(conn.work, table_name, schema_columns, primary_key)
                   ELSE AddColumns(conn.work, table_name, schema_columns)
        IN  IF ~ddl.ok
            THEN [conn |-> ConnRollback(ConnFailed(conn)), raised |-> TRUE]
            ELSE [conn |-> ConnCommit(ConnExecuted(conn, ddl.tables)),
                  raised |-> FALSE]


(***************************************************************************)
(* write_events_to_timescale.  The result is [conn, raised, outcome];      *)
(* outcome names the path taken through the function.                      *)
(***************************************************************************)

RenameColumns(df) ==
    LET old(n) == CHOOSE c \in DOMAIN df.schema : normalize_column_name(c) = n
        names == { normalize_column_name(c) : c \in DOMAIN df.schema }
    IN  [ schema |-> [ n \in names |-> df.schema[old(n)] ],
          rows |-> [ i \in DOMAIN df.rows |-> [ n \in names |-> df.rows[i][old(n)] ] ] ]

\* faulty variant: ON CONFLICT ... DO UPDATE
InsertOverwrite(table, row) ==
    LET same == { r \in BagToSet(table.rows) : \A k \in table.pk : r[k] = row[k] }
    IN  [table EXCEPT !.rows = (@ (-) SetToBag(same)) (+) SetToBag({row})]

\* faulty variant: a plain INSERT into a table without its key constraint
InsertAppend(table, row) == [table EXCEPT !.rows = @ (+) SetToBag({row})]

\* one row of executemany: INSERT ... ON CONFLICT (primary key) DO NOTHING
InsertOrIgnore(table, row) ==
    IF \E r \in BagToSet(table.rows) : \A k \in table.pk : r[k] = row[k]
    THEN table
    ELSE [table EXCEPT !.rows = @ (+) SetToBag({row})]

RECURSIVE InsertRows(_, _, _)
InsertRows(table, records, i) ==
    IF i > Len(records) THEN table
    ELSE InsertRows(InsertOrIgnore(table, records[i]), records, i + 1)

\* the rows as the INSERT names their columns
Records(df) ==
    LET col(n) == CHOOSE c \in DOMAIN df.schema : PgIdentifier(escape_column_name(c)) = n
        named == { PgIdentifier(escape_column_name(c)) : c \in DOMAIN df.schema }
    IN  [ i \in DOMAIN df.rows |-> [ n \in named |-> df.rows[i][col(n)] ] ]

\* faulty variant: the except clause re-raises without conn.rollback()
RaiseWithoutRollback(conn, outcome) ==
    [ conn |-> conn, raised |-> TRUE, outcome |-> outcome ]

\* the except clause: conn.rollback(); raise
RollbackAndRaise(conn, outcome) ==
    [ conn |-> IF conn.broken THEN conn ELSE ConnRollback(conn),
      raised |-> TRUE, outcome |-> outcome ]

\* fault: "none", or the step at which the storage backend fails a
\* statement: "ddl" (a statement of create_or_update_event_table) or
\* "insert" (the INSERT or the commit after it)
Faults == {"none", "ddl", "insert"}

write_events_to_timescale(conn, df0, table_name0, fault) ==
    \* whether the server rejects the INSERT: a named column that is no column
    \* of the table, a key column without a value, a value the column's type
    \* does not take
    LET InsertRejected(table, df) ==
            LET named == { PgIdentifier(escape_column_name(c)) : c \in DOMAIN df.schema }
            IN  \/ ~table.exists
                \/ ~(named \subseteq DOMAIN table.cols)
                \/ ~(table.pk \subseteq named)
                \/ \E c \in DOMAIN df.schema :
                      ~Accepts(table.cols[PgIdentifier(escape_column_name(c))], df.schema[c])
    IN
    \* the casts of the key columns: block_number to Int64, hash and
    \* valblspubkey to Utf8
    LET CastKeyColumns(df, primary_key_columns) ==
            [ df EXCEPT !.schema =
                [ c \in DOMAIN df.schema |->
                    IF c = "block_number" THEN "Int64"
                    ELSE IF c \in SeqToSet(primary_key_columns) /\ c \in {"hash", "valblspubkey"}
                         THEN "Utf8"
                    ELSE df.schema[c] ] ]
    IN
    \* df.rename({col: normalize_column_name(col)}): polars raises when two
    \* columns get the same name
    LET RenameRaises(df) ==
            Cardinality({ normalize_column_name(c) : c \in DOMAIN df.schema })
                # Cardinality(DOMAIN df.schema)
    IN
    IF is_empty(df0) THEN [conn |-> conn, raised |-> FALSE, outcome |-> "empty"]
    ELSE
    LET table_name == normalize_table_name(table_name0)
        primary_key_columns == get_primary_key_columns(table_name)
    IN  IF RenameRaises(df0) THEN RollbackAndRaise(conn, "rename")
        ELSE
        LET df1 == RenameColumns(df0)
        IN  IF "block_number" \notin DOMAIN df1.schema
            THEN RollbackAndRaise(conn, "missing_pk")
            ELSE IF MissingPrimaryKeyColumns(table_name, df1) # {}
            THEN RollbackAndRaise(conn, "missing_pk")
            ELSE
            LET df == CastKeyColumns(df1, primary_key_columns)
                made == create_or_update_event_table(conn, table_name, df, fault = "ddl")
            IN  IF made.raised THEN RollbackAndRaise(made.conn, "ddl_error")
                ELSE IF StatementRaises(made.conn, fault = "insert")
                     \/ InsertRejected(made.conn.work[table_name], df)
                THEN RollbackAndRaise(ConnFailed(made.conn), "insert_error")
                ELSE
                LET table == InsertRows(made.conn.work[table_name], Records(df), 1)
                    tables == [made.conn.work EXCEPT ![table_name] = table]
                IN  [ conn |-> ConnCommit(ConnExecuted(made.conn, tables)),
                      raised |-> FALSE, outcome |-> "written" ]

(***************************************************************************)
(* get_max_block_number.  The result is [conn, raised, value].             *)
(***************************************************************************)
\* faulty variant: MIN in place of MAX
RECURSIVE SqlMinOrZero(_)
SqlMinOrZero(blocks) ==
    IF blocks = {} THEN 0
    ELSE LET b == CHOOSE x \in blocks : TRUE
             rest == SqlMinOrZero(blocks \ {b})
         IN  IF blocks = {b} \/ b < rest THEN b ELSE rest

\* SELECT COALESCE(MAX(block_number), 0): the aggregate folds the values,
\* keeping the greater one; no value gives NULL, which COALESCE turns to 0
RECURSIVE SqlMaxOrZero(_)
SqlMaxOrZero(blocks) ==
    IF blocks = {} THEN 0
    ELSE LET b == CHOOSE x \in blocks : TRUE
             rest == SqlMaxOrZero(blocks \ {b})
         IN  IF b > rest THEN b ELSE rest

BlockNumbers(table) == { r["block_number"] : r \in BagToSet(table.rows) }

get_max_block_number(conn, table_name0, read_fails) ==
    LET table_name == normalize_table_name(table_name0)
    IN  IF StatementRaises(conn, read_fails)
        THEN [conn |-> ConnFailed(conn), raised |-> TRUE, value |-> 0]
        ELSE IF ~conn.work[table_name].exists
        THEN [conn |-> ConnExecuted(conn, conn.work), raised |-> FALSE, value |-> 0]
        ELSE [conn |-> ConnExecuted(conn, conn.work), raised |-> FALSE,
              value |-> SqlMaxOrZero(BlockNumbers(conn.work[table_name]))]


(***************************************************************************)
(* DatabaseConnection's context managers (src/pipeline/db.py).             *)
(***************************************************************************)
\* conn.autocommit = value: psycopg refuses it unless the connection is
\* idle; on a lost link it raises as well
SetAutocommitRaises(conn) == conn.broken \/ conn.tx # "IDLE"

\* entering `with db.autocommit()`: the result is [conn, raised]
AutocommitEnter(conn) ==
    LET c1 == IF conn.tx = "INTRANS" /\ ~conn.broken THEN ConnCommit(conn) ELSE conn
    IN  IF (conn.tx = "INTRANS" /\ conn.broken) \/ SetAutocommitRaises(c1)
        THEN [conn |-> c1, raised |-> TRUE]
        ELSE [conn |-> [c1 EXCEPT !.autocommit = TRUE], raised |-> FALSE]

\* leaving `with db.autocommit()`: the finally clause; a lost link shows
\* as conn.closed, and nothing is restored
AutocommitExit(conn, original_autocommit) ==
    IF conn.broken THEN [conn |-> conn, raised |-> FALSE]
    ELSE LET c1 == IF conn.tx = "INTRANS" THEN ConnCommit(conn) ELSE conn
         IN  IF SetAutocommitRaises(c1)
             THEN [conn |-> c1, raised |-> TRUE]
             ELSE [conn |-> [c1 EXCEPT !.autocommit = original_autocommit],
                   raised |-> FALSE]

\* leaving `with db.transaction()` without an exception: commit; when the
\* commit raises, rollback and raise.  The result is [conn, raised].
TransactionExit(conn, commit_fails) ==
    IF conn.broken THEN [conn |-> conn, raised |-> TRUE]
    ELSE IF commit_fails THEN [conn |-> ConnRollback(conn), raised |-> TRUE]
    ELSE [conn |-> ConnCommit(conn), raised |-> FALSE]

\* db.close(), and what the server does with the session: the uncommitted
\* changes are discarded
ConnClose(conn) == [conn EXCEPT !.work = conn.db, !.tx = "IDLE"]

(***************************************************************************)
(* Materialized views (src/pipeline/materialized_views.py).  A view is a   *)
(* record                                                                  *)
(*   exists  : whether pg_matviews lists it                                *)
(*   indexed : whether its unique index exists                             *)
(*   rows    : the rows it holds, as of its latest refresh                 *)
(* The functions below run their statements in autocommit mode: what they  *)
(* do to the views is committed at once.                                   *)
(***************************************************************************)
ViewNames == {"openedcommitmentstoredall", "preconf_txs"}

NoView == [ exists |-> FALSE, indexed |-> FALSE, rows |-> {} ]

NoViews == [ v \in ViewNames |-> NoView ]

SqlNull == "NULL"

\* the value of a column in a stored row: NULL for a column the row was not
\* inserted with
Cell(row, c) == IF c \in DOMAIN row THEN row[c] ELSE SqlNull

ConsolidatedSources == {"openedcommitmentstoredv2", "openedcommitmentstored"}

QueryRaises(tables) ==
    \* The columns the query of openedcommitmentstoredall reads from a table:
    \* its DISTINCT ON and ORDER BY columns and the column the two tables name
    \* differently.  bidder, decayStartTimeStamp, decayEndTimeStamp and
    \* dispatchTimestamp are projected the same way from both tables and are
    \* left out.
    LET QueryColumns(table_name) ==
            {"commitmentindex", "txnhash", "blocknumber"}
                \cup {IF table_name = "openedcommitmentstoredv2" THEN "bidamt" ELSE "bid"}
    IN
    \E t \in ConsolidatedSources :
        ~tables[t].exists \/ ~(QueryColumns(t) \subseteq DOMAIN tables[t].cols)

\* the rows of the UNION ALL, without their multiplicity
Combined(tables) ==
    LET Projected(table_name, row) ==
            [ commitmentindex |-> Cell(row, "commitmentindex"),
              txnhash |-> Cell(row, "txnhash"),
              blocknumber |-> Cell(row, "blocknumber"),
              bid |-> Cell(row, IF table_name = "openedcommitmentstoredv2"
                                THEN "bidamt" ELSE "bid") ]
    IN
    UNION { { Projected(t, r) : r \in BagToSet(tables[t].rows) } :
              t \in ConsolidatedSources }

\* SELECT DISTINCT ON (commitmentIndex, txnHash) ... ORDER BY commitmentIndex,
\* txnHash, blocknumber DESC: one row for each (commitmentIndex, txnHash),
\* one of those with the greatest blocknumber; which of them is not
\* determined.  The set of the results the query can have.
DistinctOnResults(combined) ==
    \* the place of a blocknumber value in ORDER BY blocknumber DESC: the
    \* greater number first, NULL before every number
    LET SqlRank(v) == CASE v = "1" -> 1 [] v = "2" -> 2 [] OTHER -> 3
    IN
    LET key(r) == <<r.commitmentindex, r.txnhash>>
        keys == { key(r) : r \in combined }
        first(k) == { r \in combined :
                        /\ key(r) = k
                        /\ \A r2 \in combined :
                              key(r2) = k => SqlRank(r2.blocknumber) <= SqlRank(r.blocknumber) }
    IN  { { pick[k] : k \in keys } :
            pick \in { f \in [keys -> combined] : \A k \in keys : f[k] \in first(k) } }

\* UNIQUE INDEX (commitmentIndex, blocknumber): two rows with the same
\* values, none of them NULL
UniqueIndexViolated(rows) ==
    \E r1 \in rows : \E r2 \in rows :
        /\ r1 # r2
        /\ r1.commitmentindex = r2.commitmentindex
        /\ r1.blocknumber = r2.blocknumber
        /\ r1.commitmentindex # SqlNull
        /\ r1.blocknumber # SqlNull

ViewFaults == {"none", "check", "create", "index", "refresh"}

\* The statements the view manager hands to cur.execute, as <<kind, object>>
SelectExists(name) == <<"SELECT EXISTS", name>>

DropCascade(view) == <<"DROP MATERIALIZED VIEW IF EXISTS CASCADE", view>>

CreateView(view) == <<"CREATE MATERIALIZED VIEW", view>>

CreateIndex(view) == <<"CREATE UNIQUE INDEX", view>>

Refresh(view) == <<"REFRESH MATERIALIZED VIEW", view>>

RefreshConcurrently(view) == <<"REFRESH MATERIALIZED VIEW CONCURRENTLY", view>>

CreateSchema == <<"CREATE SCHEMA IF NOT EXISTS", "api">>

\* what a function of the view manager hands back to the model:
\*   conn, views : the connection and the views after the call
\*   result      : the value returned (FALSE as well when nothing is returned)
\*   raised      : whether the call raised
\*   stmts       : the statements it handed to cur.execute, in order
Returned(conn, views, result, raised, stmts) ==
    [ conn |-> conn, views |-> views, result |-> result, raised |-> raised,
      stmts |-> stmts ]

\* finally: if self.conn.autocommit: self.conn.autocommit = False; an
\* exception raised here replaces the return value
FinallyAutocommitOff(conn, views, result, stmts) ==
    IF ~conn.autocommit THEN Returned(conn, views, result, FALSE, stmts)
    ELSE IF SetAutocommitRaises(conn) THEN Returned(conn, views, FALSE, TRUE, stmts)
    ELSE Returned([conn EXCEPT !.autocommit = FALSE], views, result, FALSE, stmts)

\* faulty variant: every table is reported as existing
TableListedAlways(tables, table_name) == TRUE

\* SELECT EXISTS (SELECT FROM information_schema.tables WHERE table_schema =
\* 'public' AND table_name = %s)
TableListed(tables, table_name) == tables[table_name].exists

\* rows: the result of the view's query on the tables as they are.
create_openedcommitments_consolidated_view(conn, views, fault, rows) ==
    LET view == "openedcommitmentstoredall"
        t1 == <<SelectExists("openedcommitmentstored")>>
        t2 == t1 \o <<SelectExists("openedcommitmentstoredv2")>>
        t3 == t2 \o <<SelectExists(view)>>
        \* DROP MATERIALIZED VIEW IF EXISTS openedcommitmentstoredall CASCADE
        \* takes api.preconf_txs, which selects from the view, with it
        t4 == IF views[view].exists THEN t3 \o <<DropCascade(view)>> ELSE t3
        vs0 == IF views[view].exists THEN [ v \in ViewNames |-> NoView ] ELSE views
        t5 == t4 \o <<CreateView(view)>>
        t6 == t5 \o <<CreateIndex(view)>>
        t7 == t6 \o <<Refresh(view)>>
        made(indexed) == [vs0 EXCEPT ![view] =
                            [exists |-> TRUE, indexed |-> indexed, rows |-> rows]]
    IN  IF StatementRaises(conn, fault = "check")
        THEN FinallyAutocommitOff(ConnFailed(conn), views, FALSE, t1)
        ELSE
        LET c1 == ConnExecuted(conn, conn.work)
            c2 == [c1 EXCEPT !.autocommit = TRUE]
        IN  IF ~TableListed(c1.work, "openedcommitmentstored")
            THEN FinallyAutocommitOff(c1, views, FALSE, t1)
            ELSE IF ~TableListed(c1.work, "openedcommitmentstoredv2")
            THEN FinallyAutocommitOff(c1, views, FALSE, t2)
            ELSE IF SetAutocommitRaises(c1)
            THEN FinallyAutocommitOff(c1, views, FALSE, t2)
            ELSE IF fault = "create" \/ QueryRaises(c2.work)
            THEN FinallyAutocommitOff(c2, vs0, FALSE, t5)
            ELSE IF fault = "index" \/ UniqueIndexViolated(rows)
            THEN FinallyAutocommitOff(c2, made(FALSE), FALSE, t6)
            ELSE IF fault = "refresh"
            THEN FinallyAutocommitOff(c2, made(TRUE), FALSE, t7)
            ELSE FinallyAutocommitOff(c2, made(TRUE), TRUE, t7)

\* the tables api.preconf_txs joins with openedcommitmentstoredall
required_tables == <<"unopenedcommitmentstored", "commitmentprocessed", "l1transactions">>

\* check_tables_exist: the result is [conn, result, stmts]
check_tables_exist(conn, views, fault) ==
    LET checked(n) == [ i \in 1..n |-> SelectExists(required_tables[i]) ]
        missing == { i \in DOMAIN required_tables :
                       ~TableListed(conn.work, required_tables[i]) }
        first == CHOOSE i \in missing : \A j \in missing : i <= j
    IN  IF StatementRaises(conn, fault = "check")
        THEN [conn |-> ConnFailed(conn), result |-> FALSE, stmts |-> checked(1)]
        ELSE IF missing # {}
        THEN [conn |-> ConnExecuted(conn, conn.work), result |-> FALSE,
              stmts |-> checked(first)]
        ELSE [conn |-> ConnExecuted(conn, conn.work),
              result |-> views["openedcommitmentstoredall"].exists,
              stmts |-> checked(Len(required_tables))
                          \o <<SelectExists("openedcommitmentstoredall")>>]

\* the function verify_permissions(self) at the end of the module: it
\* creates the schema api and creates and drops the view
\* api.test_permissions; an error makes it return False.  The result is
\* [conn, result, stmts].
verify_permissions(conn, fault) ==
    LET probe == <<CreateSchema, CreateView("test_permissions")>>
    IN  IF StatementRaises(conn, FALSE)
        THEN [conn |-> ConnFailed(conn), result |-> FALSE, stmts |-> <<CreateSchema>>]
        ELSE IF fault = "permission"
        THEN [conn |-> ConnFailed(ConnExecuted(conn, conn.work)), result |-> FALSE,
              stmts |-> probe]
        ELSE [conn |-> ConnExecuted(conn, conn.work), result |-> TRUE,
              stmts |-> probe \o <<<<"DROP MATERIALIZED VIEW IF EXISTS",
                                    "test_permissions">>>>]

\* the query of api.preconf_txs: the rows of openedcommitmentstoredall that
\* join with a row of each of the three tables (on commitmentIndex, and on
\* '0x' || txnHash = l1transactions.hash)
PreconfRows(tables, views) ==
    LET Hex0x(v) == CASE v = "a" -> "0xa" [] v = "b" -> "0xb" [] OTHER -> SqlNull
    IN
    LET has(t, c, v) == \E r \in BagToSet(tables[t].rows) :
                            v # SqlNull /\ Cell(r, c) = v
    IN  { r \in views["openedcommitmentstoredall"].rows :
            /\ has("unopenedcommitmentstored", "commitmentindex", r.commitmentindex)
            /\ has("commitmentprocessed", "commitmentindex", r.commitmentindex)
            /\ has("l1transactions", "hash", Hex0x(r.txnhash)) }

\* two rows with the same (commitmentIndex, hash), none of them NULL; hash
\* is '0x' || txnHash in every row of the join
PreconfIndexViolated(rows) ==
    \E r1 \in rows : \E r2 \in rows :
        /\ r1 # r2
        /\ r1.commitmentindex = r2.commitmentindex
        /\ r1.txnhash = r2.txnhash
        /\ r1.commitmentindex # SqlNull
        /\ r1.txnhash # SqlNull

\* create_preconf_txs_view.  Its first statement is self.verify_permissions():
\* the lookup of an attribute the manager does not have raises
\* AttributeError, which the except clause turns into False.
create_preconf_txs_view(conn, views, fault) ==
    \* the names a MaterializedViewManager answers to: its attribute conn and
    \* the functions defined in the body of the class (lines 9-434);
    \* verify_permissions is defined after the class, at module level
    LET MaterializedViewManagerAttributes ==
            {"conn", "check_tables_exist", "create_preconf_txs_view", "refresh_preconf_txs_view",
             "refresh_openedcommitments_view", "refresh_all_views",
             "create_openedcommitments_consolidated_view", "merge_staked_columns", "autocommit"}
    IN
    LET view == "preconf_txs"
    IN  IF "verify_permissions" \notin MaterializedViewManagerAttributes
        THEN FinallyAutocommitOff(conn, views, FALSE, << >>)
        ELSE
        LET p == verify_permissions(conn, fault)
            t == check_tables_exist(p.conn, views, fault)
            t0 == p.stmts \o t.stmts
            \* self.conn.commit(); self.conn.autocommit = True
            c2 == [ConnCommit(t.conn) EXCEPT !.autocommit = TRUE]
            t1 == t0 \o <<SelectExists(view)>>
            t2 == t1 \o <<SelectExists("preconf_txs_unique_idx")>>
            t3 == t2 \o <<CreateIndex(view)>>
            n1 == t1 \o <<CreateSchema, DropCascade(view), CreateView(view)>>
            n2 == n1 \o <<CreateIndex(view)>>
            n3 == n2 \o <<Refresh(view)>>
            made(indexed, rows) == [views EXCEPT ![view] =
                            [exists |-> TRUE, indexed |-> indexed, rows |-> rows]]
        IN  IF ~p.result THEN FinallyAutocommitOff(p.conn, views, FALSE, p.stmts)
            ELSE IF ~t.result THEN FinallyAutocommitOff(t.conn, views, FALSE, t0)
            ELSE IF conn.broken THEN FinallyAutocommitOff(t.conn, views, FALSE, t0)
            ELSE IF views[view].exists
            THEN IF views[view].indexed
                 THEN FinallyAutocommitOff(c2, views, TRUE, t2)
                 ELSE IF fault = "index" \/ PreconfIndexViolated(views[view].rows)
                 THEN FinallyAutocommitOff(c2, views, FALSE, t3)
                 ELSE FinallyAutocommitOff(c2, [views EXCEPT ![view].indexed = TRUE],
                                           TRUE, t3)
            ELSE IF fault = "create"
            THEN FinallyAutocommitOff(c2, views, FALSE, n1)
            ELSE IF fault = "index"
            THEN FinallyAutocommitOff(c2, made(FALSE, {}), FALSE, n2)
            ELSE IF fault = "refresh" \/ PreconfIndexViolated(PreconfRows(c2.work, views))
            THEN FinallyAutocommitOff(c2, made(TRUE, {}), FALSE, n3)
            ELSE FinallyAutocommitOff(c2, made(TRUE, PreconfRows(c2.work, views)),
                                      TRUE, n3)

\* faulty variant: the view is refreshed without being looked up
RefreshViewUnchecked(conn, views, view, fault, raises, rows) ==
    LET t2 == <<RefreshConcurrently(view)>>
    IN  IF StatementRaises(conn, fault = "check") \/ SetAutocommitRaises(conn)
        THEN Returned(ConnFailed(conn), views, FALSE, FALSE, t2)
        ELSE IF fault = "refresh" \/ ~views[view].exists \/ ~views[view].indexed \/ raises
        THEN Returned(conn, views, FALSE, FALSE, t2)
        ELSE Returned(conn, [views EXCEPT ![view].rows = rows], FALSE, FALSE, t2)

\* The body of the two refresh functions: the view is looked up in
\* pg_matviews; when it is there, the connection is put into autocommit
\* mode, REFRESH MATERIALIZED VIEW CONCURRENTLY is executed and the mode is
\* put back; every error is logged and dropped.  CONCURRENTLY needs the
\* view's unique index.  rows: the result of the view's query.
RefreshView(conn, views, view, fault, raises, rows) ==
    LET t1 == <<SelectExists(view)>>
        t2 == t1 \o <<RefreshConcurrently(view)>>
    IN  IF StatementRaises(conn, fault = "check")
        THEN Returned(ConnFailed(conn), views, FALSE, FALSE, t1)
        ELSE
        LET c1 == ConnExecuted(conn, conn.work)
            old_autocommit == c1.autocommit
            c2 == [c1 EXCEPT !.autocommit = TRUE]
            c3 == [c2 EXCEPT !.autocommit = old_autocommit]
        IN  IF ~views[view].exists THEN Returned(c1, views, FALSE, FALSE, t1)
            ELSE IF SetAutocommitRaises(c1) THEN Returned(c1, views, FALSE, FALSE, t1)
            ELSE IF fault = "refresh" \/ ~views[view].indexed \/ raises
            THEN Returned(c3, views, FALSE, FALSE, t2)
            ELSE Returned(c3, [views EXCEPT ![view].rows = rows], FALSE, FALSE, t2)

refresh_openedcommitments_view(conn, views, fault, rows) ==
    RefreshView(conn, views, "openedcommitmentstoredall", fault,
                QueryRaises(conn.work) \/ UniqueIndexViolated(rows), rows)

refresh_preconf_txs_view(conn, views, fault) ==
    RefreshView(conn, views, "preconf_txs", fault,
                PreconfIndexViolated(PreconfRows(conn.work, views)),
                PreconfRows(conn.work, views))

\* faulty variant: the aggregate view is refreshed first
refresh_all_views_aggregate_first(conn, views, fault1, fault2, rows) ==
    LET r2 == refresh_preconf_txs_view(conn, views, fault2)
        r1 == refresh_openedcommitments_view(r2.conn, r2.views, fault1, rows)
    IN  Returned(r1.conn, r1.views, FALSE, FALSE, r2.stmts \o r1.stmts)

\* faulty variant: a failed refresh of the consolidated view ends the call
refresh_all_views_fail_fast(conn, views, fault1, fault2, rows) ==
    LET r1 == refresh_openedcommitments_view(conn, views, fault1, rows)
        r2 == refresh_preconf_txs_view(r1.conn, r1.views, fault2)
    IN  IF fault1 # "none" THEN Returned(r1.conn, r1.views, FALSE, FALSE, r1.stmts)
        ELSE Returned(r2.conn, r2.views, FALSE, FALSE, r1.stmts \o r2.stmts)

\* fault1, fault2: the faults met by the refresh of the consolidated view
\* and by the refresh of the aggregate view
refresh_all_views(conn, views, fault1, fault2, rows) ==
    LET r1 == refresh_openedcommitments_view(conn, views, fault1, rows)
        r2 == refresh_preconf_txs_view(r1.conn, r1.views, fault2)
    IN  Returned(r2.conn, r2.views, FALSE, FALSE, r1.stmts \o r2.stmts)

UpdateStaked == <<"UPDATE", "staked">>

\* faulty variant: the WHERE clause without staked_old.txoriginator IS NOT NULL
MergeMatchesNull(r, o) ==
    /\ Cell(r, "valblspubkey") # SqlNull
    /\ Cell(r, "valblspubkey") = Cell(o, "valblspubkey")
    /\ Cell(r, "msgsender") # Cell(o, "txoriginator")

\* WHERE staked.valblspubkey = staked_old.valblspubkey AND
\* staked_old.txoriginator IS NOT NULL AND staked.msgsender <>
\* staked_old.txoriginator, for a row r of staked and a row o of staked_old;
\* a comparison with NULL is not true
MergeMatches(r, o) ==
    /\ Cell(r, "valblspubkey") # SqlNull
    /\ Cell(r, "valblspubkey") = Cell(o, "valblspubkey")
    /\ Cell(o, "txoriginator") # SqlNull
    /\ Cell(r, "msgsender") # SqlNull
    /\ Cell(r, "msgsender") # Cell(o, "txoriginator")

\* the rows of staked_old a row of staked joins with
MergeSources(tables, r) ==
    { o \in BagToSet(tables["staked_old"].rows) : MergeMatches(r, o) }

\* UPDATE ... FROM staked_old: a row of staked that joins with several rows
\* of staked_old is updated from one of them, which one is not determined.
\* The choices the server has: for each row of staked, the row of staked_old
\* it is updated from, NoRow for a row that joins with none.
NoRow == [ norow |-> SqlNull ]

UpdateChoices(tables) ==
    LET rows == BagToSet(tables["staked"].rows)
        olds == BagToSet(tables["staked_old"].rows)
    IN  { f \in [rows -> olds \cup {NoRow}] :
            \A r \in rows : IF MergeSources(tables, r) = {} THEN f[r] = NoRow
                            ELSE f[r] \in MergeSources(tables, r) }

MergedTables(tables, pick) ==
    \* SET msgsender = staked_old.txoriginator
    LET MergedRow(r, o) ==
            IF o = NoRow THEN r
            ELSE [ c \in DOMAIN r \cup {"msgsender"} |->
                     IF c = "msgsender" THEN Cell(o, "txoriginator") ELSE r[c] ]
    IN
    [tables EXCEPT !["staked"].rows =
        SetToBag({ MergedRow(r, pick[r]) : r \in BagToSet(tables["staked"].rows) })]

\* faulty variant: without the except clause, a failed check raises
merge_staked_columns_unguarded(conn, check_fails, pick) ==
    IF StatementRaises(conn, check_fails)
    THEN [conn |-> ConnFailed(conn), raised |-> TRUE, result |-> FALSE,
          stmts |-> <<SelectExists("staked")>>]
    ELSE [conn |-> ConnExecuted(conn, conn.work), raised |-> FALSE, result |-> FALSE,
          stmts |-> <<SelectExists("staked"), SelectExists("staked_old")>>]

\* merge_staked_columns: the two tables are looked up; when both exist the
\* rows to update are counted, and when there are any the UPDATE is executed
\* and committed.  A failed statement is logged and followed by
\* conn.rollback(), which raises on a lost link.  check_fails: the server
\* fails the first lookup; pick: the server's choice in the UPDATE.  The
\* result is [conn, raised, result, stmts]; nothing is returned (result is
\* FALSE).
merge_staked_columns(conn, check_fails, pick) ==
    \* the columns the COUNT and the UPDATE name in each of the two tables
    LET MergeColumns(table_name) ==
            IF table_name = "staked" THEN {"valblspubkey", "msgsender"}
            ELSE {"valblspubkey", "txoriginator"}
    IN
    LET MergeQueryRaises(tables) ==
            \E t \in {"staked", "staked_old"} : ~(MergeColumns(t) \subseteq DOMAIN tables[t].cols)
    IN
    \* merge_staked_columns.  Its statements, as <<kind, object>>
    LET CountMerge == <<"SELECT COUNT(*)", "staked JOIN staked_old">>
    IN
    LET Commit == <<"COMMIT", "">>
    IN
    LET t1 == <<SelectExists("staked")>>
        t2 == t1 \o <<SelectExists("staked_old")>>
        t3 == t2 \o <<CountMerge>>
        t4 == t3 \o <<UpdateStaked, Commit>>
        failed(c, stmts) ==
            [conn |-> IF c.broken THEN c ELSE ConnRollback(ConnFailed(c)),
             raised |-> c.broken, result |-> FALSE, stmts |-> stmts]
        done(c, stmts) == [conn |-> c, raised |-> FALSE, result |-> FALSE, stmts |-> stmts]
    IN  IF StatementRaises(conn, check_fails) THEN failed(conn, t1)
        ELSE
        LET c1 == ConnExecuted(conn, conn.work)
        IN  IF ~TableListed(c1.work, "staked") \/ ~TableListed(c1.work, "staked_old")
            THEN done(c1, t2)
            ELSE IF MergeQueryRaises(c1.work) THEN failed(c1, t3)
            ELSE IF \A r \in BagToSet(c1.work["staked"].rows) :
                       MergeSources(c1.work, r) = {}
            THEN done(c1, t3)
            ELSE done(ConnCommit(ConnExecuted(c1, MergedTables(c1.work, pick))), t4)

(***************************************************************************)
(* The event source and the fetch wrapper (src/pipeline/queries.py).       *)
(***************************************************************************)
mev_commit_config == <<"OpenedCommitmentStored", "OpenedCommitmentStoredV2">>

mev_commit_validator_config == <<"Staked">>

\* the columns the source delivers for a stream
SourceSchema(s) ==
    IF s = "Staked"
    THEN [ c \in {"block_number", "valblspubkey", "amount"} |->
             IF c = "valblspubkey" THEN "Utf8" ELSE "UInt64" ]
    ELSE [ c \in {"block_number", "hash", "commitmentIndex", "txnHash", "blockNumber",
                  IF s = "OpenedCommitmentStoredV2" THEN "bidAmt" ELSE "bid"} |->
             IF c \in {"hash", "commitmentIndex", "txnHash"} THEN "Utf8" ELSE "UInt64" ]

\* manager.execute_event_query(config, from_block=block_number): what the
\* source can answer: no events, or events of blocks from block_number on
SourceResults(s, block_number) ==
    {EmptyBatch} \cup
    { MakeBatch(SourceSchema(s), bl, 1) :
        bl \in { b \in BlockLists : \A i \in DOMAIN b : b[i] >= block_number } }

\* fetch_event_for_config: None when the query raises or finds no events
fetch_event_for_config(raises, df) ==
    IF raises \/ is_empty(df)
    THEN [ none |-> TRUE, df |-> EmptyBatch ]
    ELSE [ none |-> FALSE, df |-> df ]

(***************************************************************************)
(* process_event_config (src/main.py), in its two parts: until it awaits   *)
(* the fetch, and from the answer of the fetch on.  A task is a record     *)
(*   st     : "idle", "ready" (created by gather), "fetching", "done", or  *)
(*            "failed" (it raised)                                         *)
(*   from   : the block number it asked the source for                     *)
(*   blocks : the block numbers of the batch it handed to the writer       *)
(*   fault  : the storage fault met by its own statements                  *)
(***************************************************************************)
IdleTask == [ st |-> "idle", from |-> 0, blocks |-> << >>, fault |-> "none" ]

IdleTasks == [ s \in StreamNames |-> IdleTask ]

\* faulty variant: the fetch starts from start_block, whatever the table holds
ProcessStartFresh(conn, s, start_block, read_fails) ==
    LET r == get_max_block_number(conn, s, read_fails)
    IN  IF r.raised
        THEN [ conn |-> r.conn,
               task |-> [IdleTask EXCEPT !.st = "failed",
                                         !.fault = IF read_fails THEN "read" ELSE "none"] ]
        ELSE [ conn |-> r.conn,
               task |-> [IdleTask EXCEPT !.st = "fetching", !.from = start_block + 1] ]

\* the result is [conn, task]
ProcessStart(conn, s, start_block, read_fails) ==
    LET PyMax(a, b) == IF a >= b THEN a ELSE b
    IN
    LET r == get_max_block_number(conn, s, read_fails)
        current_block == PyMax(r.value, start_block)
    IN  IF r.raised
        THEN [ conn |-> r.conn,
               task |-> [IdleTask EXCEPT !.st = "failed",
                                         !.fault = IF read_fails THEN "read" ELSE "none"] ]
        ELSE [ conn |-> r.conn,
               task |-> [IdleTask EXCEPT !.st = "fetching", !.from = current_block + 1] ]

\* the result is [conn, task]
ProcessResume(conn, s, t, fetched, fault) ==
    IF fetched.none
    THEN [ conn |-> conn, task |-> [t EXCEPT !.st = "done"] ]
    ELSE LET r == write_events_to_timescale(conn, fetched.df, s, fault)
         IN  [ conn |-> r.conn,
               task |-> [ st |-> IF r.raised THEN "failed" ELSE "done",
                          from |-> t.from,
                          blocks |-> [ i \in DOMAIN fetched.df.rows |->
                                         fetched.df.rows[i]["block_number"] ],
                          fault |-> fault ] ]

(***************************************************************************)
(* main()'s retry bookkeeping (src/main.py).                               *)
(***************************************************************************)
max_retries == 3

\* faulty variant: retry_count <= max_retries
RetriesLeftOffByOne(count) == count <= max_retries

\* retry_count < max_retries
RetriesLeft(count) == count < max_retries

\* faulty variant: the reset is left out
KeepRetryCount(count) == count

\* retry_count = 0
ResetRetryCount(count) == 0


(***************************************************************************)
(* State.                                                                  *)
(***************************************************************************)
VARIABLES
    db,           \* the committed tables of the database
    work,         \* the tables as the connection sees them
    tx,           \* the connection's transaction status
    autocommit,   \* the connection's autocommit attribute
    link,         \* "none", "open", "broken" or "closed": the connection
    stream,       \* the stream the writer is called for (SpecWriter)
    last,         \* the outcome of the latest write_events_to_timescale call
    changed,      \* whether that call changed the committed database
    seen,         \* the lower-cased column names of the batches written so far
    clean,        \* whether no write_events_to_timescale call has raised so far
    produced,     \* whether a batch with rows has been handed to the writer
    typed,        \* the schema create_or_update_event_table is called with and
                  \* the column definitions it derived from it (SpecTyping)
    matviews,     \* the materialized views of the database
    pc,           \* where main() stands
    retry_count,  \* main()'s retry_count
    task,         \* for each stream, its process_event_config task
    cycle,        \* how the latest fetch cycle ended: "ok" or "error";
                  \* "restarted" until a cycle ends in a restarted process
    consecutive,  \* top-level failures since the latest successful cycle
    reset_from,   \* the retry_count the latest successful cycle found
    succeeded,    \* whether a cycle has completed successfully
    exit_code,    \* the exit status of the process, NotExited while it runs
    called,       \* the latest call of a function of the view manager
    tried,        \* whether the creation of openedcommitmentstoredall has been
                  \* attempted while both of its tables existed
    ready         \* whether both tables existed when the current cycle began

connvars == <<db, work, tx, autocommit>>

writervars == <<stream, last, changed, seen, clean, produced, typed>>

viewvars == <<called>>

retriedvars == <<tried, ready>>

mainvars == <<matviews, pc, retry_count, task, cycle, consecutive, reset_from, succeeded,
              exit_code>>

vars == <<db, work, tx, autocommit, link, stream, last, changed, seen, clean, produced,
          typed,
          matviews, pc, retry_count, task, cycle, consecutive, reset_from, succeeded,
          exit_code, called, tried, ready>>

\* asyncio.run(main()) has not returned
NotExited == -1

\* no schema has been handed to create_or_update_event_table
NotTyped == [ schema |-> << >>, columns |-> {}, done |-> FALSE ]

\* one of the tables openedcommitmentstoredall selects from is not there
ConsolidatedInputMissing == \E t \in ConsolidatedSources : ~work[t].exists

\* no function of the view manager has been called
NoCall == [ fn |-> "none", fault |-> <<"none">>, result |-> FALSE, raised |-> FALSE,
           stmts |-> << >>, views |-> NoViews, tx |-> "IDLE", autocommit |-> FALSE,
           after |-> FALSE ]

\* the record of a call: the function, the faults its statements met, what
\* it handed back, the views, the transaction status and the autocommit
\* mode it was entered with, and the autocommit mode it was left with
Call(fn, conn, views, fault, r) ==
    [ fn |-> fn, fault |-> fault, result |-> r.result, raised |-> r.raised,
      stmts |-> r.stmts, views |-> views, tx |-> conn.tx,
      autocommit |-> conn.autocommit, after |-> r.conn.autocommit ]

Conn == [ db |-> db, work |-> work, tx |-> tx, autocommit |-> autocommit,
          broken |-> link = "broken" ]

SetConn(conn) ==
    /\ db' = conn.db
    /\ work' = conn.work
    /\ tx' = conn.tx
    /\ autocommit' = conn.autocommit

(***************************************************************************)
(* SpecWriter: write_events_to_timescale called, again and again, on an    *)
(* open connection outside autocommit, with any batch and any storage      *)
(* fault, for one stream.                                                  *)
(***************************************************************************)
\* the writer tells streams apart by get_primary_key_columns alone: one
\* stream of each kind
WriterStreams == {"OpenedCommitmentStored", "Staked"}

InitWriter ==
    /\ db = NoTables
    /\ work = NoTables
    /\ tx = "IDLE"
    /\ autocommit = FALSE
    /\ link = "open"
    /\ stream \in WriterStreams
    /\ last = "none"
    /\ changed = FALSE
    /\ seen = {}
    /\ clean = TRUE
    /\ produced = FALSE
    /\ typed = NotTyped
    /\ matviews = NoViews
    /\ pc = "writer"
    /\ retry_count = 0
    /\ task = IdleTasks
    /\ cycle = "none"
    /\ consecutive = 0
    /\ reset_from = 0
    /\ succeeded = FALSE
    /\ exit_code = NotExited
    /\ called = NoCall
    /\ tried = FALSE
    /\ ready = FALSE

\* the lower-cased, trimmed column names of a batch
ColumnNamesOf(df) == { StrStrip(StrLower(c)) : c \in DOMAIN df.schema }

WriteEvents(df, fault) ==
    LET r == write_events_to_timescale(Conn, df, stream, fault)
    IN  /\ SetConn(r.conn)
        /\ last' = r.outcome
        /\ changed' = (r.conn.db # db)
        /\ seen' = IF r.outcome = "written"
                   THEN seen \cup ColumnNamesOf(df)
                   ELSE seen
        /\ clean' = (clean /\ ~r.raised)
        /\ produced' = (produced \/ ~is_empty(df))
        /\ UNCHANGED <<link, stream, typed, mainvars, viewvars, retriedvars>>

NextWriter ==
    \E df \in Batches[stream] \cup {EmptyBatch} : \E fault \in Faults :
        WriteEvents(df, fault)

SpecWriter == InitWriter /\ [][NextWriter]_vars


(***************************************************************************)
(* Properties of the writer and of the cursor read (SpecWriter).           *)
(***************************************************************************)
StreamTable == normalize_table_name(stream)

StreamKey == IF StreamTable = "staked" THEN {"block_number", "valblspubkey"}
             ELSE {"block_number", "hash"}

HasPrimaryKey(df) == StreamKey \subseteq ColumnNamesOf(df)

KeyOf(row) == [ k \in StreamKey |-> row[k] ]

StoredRows(tables) == BagToSet(tables[StreamTable].rows)

Written(df, fault) == write_events_to_timescale(Conn, df, stream, fault)

\* C1: writing a non-empty batch that holds the stream's primary-key
\* columns twice in succession leaves the database (the rows and the columns
\* of every table) exactly as writing it once does.
C1_IdempotentReingestion ==
    \A df \in Batches[stream] :
        HasPrimaryKey(df) =>
            LET once == Written(df, "none")
                twice == write_events_to_timescale(once.conn, df, stream, "none")
            IN  /\ twice.conn.db = once.conn.db
                /\ twice.conn.work = once.conn.db

\* C1 witness: a write went through and changed nothing, and the database
\* is what writing a batch whose rows it holds leaves
C1_Witness ==
    /\ last = "written"
    /\ ~changed
    /\ \E df \in Batches[stream] :
          /\ HasPrimaryKey(df)
          /\ Written(df, "none").conn.db = db
          /\ \A i \in DOMAIN df.rows :
                Records(RenameColumns(df))[i] \in StoredRows(db)

\* C2: a stored row is never changed or removed by a later write: every row
\* stored before a call is stored after it, once, with the same values, and
\* it stays the only row of its key (the incoming row of that key is
\* discarded).
C2_StoredRowsAuthoritative ==
    [][ \A r \in StoredRows(db) :
          /\ CopiesIn(r, db'[StreamTable].rows) = 1
          /\ \A r2 \in StoredRows(db') : KeyOf(r2) = KeyOf(r) => r2 = r ]_vars

\* C2 witness: a write went through and changed nothing, and a batch with
\* another row for a stored key leaves the database as it is
C2_Witness ==
    /\ last = "written"
    /\ ~changed
    /\ \E df \in Batches[stream] :
          /\ HasPrimaryKey(df)
          /\ \E r \in StoredRows(db) :
                \E i \in DOMAIN df.rows :
                    /\ KeyOf(RenameColumns(df).rows[i]) = KeyOf(r)
                    /\ Records(RenameColumns(df))[i] # r
          /\ Written(df, "none").outcome = "written"
          /\ Written(df, "none").conn.db = db

\* C3: after a sequence of writes that all went through, the table's
\* columns are the union of the lower-cased column names of the batches
\* written; a write of a batch that holds the key and fits the stored types
\* goes through and leaves exactly the columns before it plus the batch's;
\* and whatever a call does, no column is removed or retyped.
C3_MonotonicSchemaGrowth ==
    \* the dtype the INSERT sends for a column of a batch
    LET SentDType(df, c) ==
            IF StrStrip(StrLower(c)) = "block_number" THEN "Int64"
            ELSE IF StrStrip(StrLower(c)) \in StreamKey THEN "Utf8"
            ELSE df.schema[c]
    IN
    \* no column of the batch meets a stored column whose type rejects it
    LET FitsTable(tables, df) ==
            \A c \in DOMAIN df.schema :
                StrStrip(StrLower(c)) \in DOMAIN tables[StreamTable].cols
                    => Accepts(tables[StreamTable].cols[StrStrip(StrLower(c))], SentDType(df, c))
    IN
    /\ seen \subseteq DOMAIN db[StreamTable].cols
    /\ clean => DOMAIN db[StreamTable].cols = seen
    /\ \A df \in Batches[stream] :
          (HasPrimaryKey(df) /\ FitsTable(db, df)) =>
              LET r == Written(df, "none")
              IN  /\ ~r.raised
                  /\ DOMAIN r.conn.db[StreamTable].cols
                       = DOMAIN db[StreamTable].cols \cup ColumnNamesOf(df)
    /\ \A df \in Batches[stream] : \A fault \in Faults :
          LET r == Written(df, fault)
          IN  \A c \in DOMAIN db[StreamTable].cols :
                  /\ c \in DOMAIN r.conn.db[StreamTable].cols
                  /\ r.conn.db[StreamTable].cols[c] = db[StreamTable].cols[c]

\* C3 witness: batches with different column sets have been written: the
\* table holds rows inserted with different columns, and its columns are
\* those of the batches written
C3_Witness ==
    /\ last = "written"
    /\ clean
    /\ seen = DOMAIN db[StreamTable].cols
    /\ {"amount", "window"} \subseteq seen
    /\ \E r1 \in StoredRows(db) : \E r2 \in StoredRows(db) : DOMAIN r1 # DOMAIN r2

\* C4: get_max_block_number returns 0 when the table does not exist, 0 when
\* it has no rows and the greatest block_number of its rows otherwise (12
\* for rows 5, 12 and 7); a missing table does not make it raise.
C4_CursorCorrectness ==
    LET r == get_max_block_number(Conn, stream, FALSE)
        blocks == { row["block_number"] : row \in StoredRows(work) }
    IN  /\ ~r.raised
        /\ ~work[StreamTable].exists => r.value = 0
        /\ blocks = {} => r.value = 0
        /\ blocks # {} => r.value \in blocks /\ \A b \in blocks : b <= r.value
        /\ LET rows == { [ c \in StreamKey |->
                             IF c = "block_number" THEN b ELSE "0xaa" ] : b \in {5, 12, 7} }
               table == [ exists |-> TRUE,
                          cols |-> [ c \in StreamKey |->
                                       IF c = "block_number" THEN "BIGINT" ELSE "TEXT" ],
                          pk |-> StreamKey, rows |-> SetToBag(rows) ]
               tables == [ work EXCEPT ![StreamTable] = table ]
           IN  get_max_block_number([Conn EXCEPT !.work = tables], stream, FALSE).value = 12

\* C4 witness: the table holds rows of different block numbers, and the
\* cursor read answers the greatest of them
C4_Witness ==
    /\ Cardinality({ row["block_number"] : row \in StoredRows(db) }) > 1
    /\ get_max_block_number(Conn, stream, FALSE).value = MaxBlock

\* C5: a non-empty batch that lacks a primary-key column of the stream is
\* rejected in full: the call raises, and the tables, their columns and
\* their rows are as before the call.
C5_MissingPrimaryKeyRejected ==
    \A df \in Batches[stream] : \A fault \in Faults :
        ~HasPrimaryKey(df) =>
            LET r == Written(df, fault)
            IN  /\ r.raised
                /\ r.conn.db = db
                /\ r.conn.work = db

\* C5 witness: a batch without its key was just rejected by a table that
\* holds rows and lacks a column of that batch
C5_Witness ==
    /\ last = "missing_pk"
    /\ StoredRows(db) # {}
    /\ "amount" \notin DOMAIN db[StreamTable].cols

\* C6: a write is all or nothing: when write_events_to_timescale raises,
\* neither a table it created, nor a column it added, nor a row of the batch
\* remains (the committed database is as before the call).
C6_BatchWriteAtomic ==
    [][ last' \in {"rename", "missing_pk", "ddl_error", "insert_error"}
            => db' = db ]_vars

(***************************************************************************)
(* SpecMain: main() of src/main.py.  pc is                                 *)
(*   "start"      at the head of the retry loop (line 91)                  *)
(*   "merge"      connected, before merge_staked_columns (line 99)         *)
(*   "views"      before the creation of the views (line 103)              *)
(*   "cycle"      at the head of the cycle loop (line 113)                 *)
(*   "mev"        awaiting process_batch of mev_commit_config (line 118)   *)
(*   "validator"  awaiting process_batch of the validator config (125)     *)
(*   "sleep"      awaiting asyncio.sleep(30) (line 144)                    *)
(*   "retry_wait" awaiting asyncio.sleep(retry_delay) (line 153)           *)
(*   "returned"   main() has returned                                      *)
(*   "cancelled"  main() was cancelled (KeyboardInterrupt)                 *)
(***************************************************************************)
\* the databases the pipeline can find when it starts: an empty one, and
\* one in which an earlier run has written both opened-commitment streams
SeededTables ==
    LET w1 == write_events_to_timescale(
                  [db |-> NoTables, work |-> NoTables, tx |-> "IDLE",
                   autocommit |-> FALSE, broken |-> FALSE],
                  MakeBatch(SourceSchema("OpenedCommitmentStored"), <<1>>, 1),
                  "OpenedCommitmentStored", "none")
        w2 == write_events_to_timescale(w1.conn,
                  MakeBatch(SourceSchema("OpenedCommitmentStoredV2"), <<1>>, 1),
                  "OpenedCommitmentStoredV2", "none")
    IN  w2.conn.db

InitMain ==
    LET InitialDatabases == {NoTables, SeededTables}
    IN
    /\ db \in InitialDatabases
    /\ work = db
    /\ tx = "IDLE"
    /\ autocommit = FALSE
    /\ link = "none"
    /\ stream = "none"
    /\ last = "none"
    /\ changed = FALSE
    /\ seen = {}
    /\ clean = TRUE
    /\ produced = FALSE
    /\ typed = NotTyped
    /\ matviews = NoViews
    /\ pc = "start"
    /\ retry_count = 0
    /\ task = IdleTasks
    /\ cycle = "none"
    /\ consecutive = 0
    /\ reset_from = 0
    /\ succeeded = FALSE
    /\ exit_code = NotExited
    /\ called = NoCall
    /\ tried = FALSE
    /\ ready = FALSE

\* the script's entry point: asyncio.run(main()) returns or raises, and only
\* an Exception leaving main() reaches exit(1); a KeyboardInterrupt is
\* logged, and the interpreter then exits with status 0 as it does when
\* main() returns
ExitStatus(outcome) ==
    CASE outcome = "returned" -> 0
      [] outcome = "KeyboardInterrupt" -> 0
      [] outcome = "Exception" -> 1

\* faulty variant: the finally clause leaves the connection as it is
close_skipped(l) == l

\* finally: if db: db.close() (main.py:158-161, db.py:44-46): a connection
\* that was opened is closed; one the server link of which is lost counts
\* as closed already; without a connection nothing is done
close(l) == IF l \in {"open", "broken"} THEN "closed" ELSE l

\* the except clause of the retry loop, and the finally clause after it
\* when the loop is left: retry_count += 1; sleep and go round, or break
TopLevelFailure(conn, views) ==
    /\ retry_count' = retry_count + 1
    /\ consecutive' = consecutive + 1
    /\ IF RetriesLeft(retry_count + 1)
       THEN /\ pc' = "retry_wait"
            /\ SetConn(conn)
            /\ link' = link
       ELSE /\ pc' = "returned"
            /\ SetConn(ConnClose(conn))
            /\ link' = close(link)
    /\ exit_code' = IF RetriesLeft(retry_count + 1) THEN exit_code
                     ELSE ExitStatus("returned")
    /\ matviews' = views
    /\ UNCHANGED <<task, cycle, reset_from, succeeded, writervars, ready, viewvars>>

\* lines 91-96: the loop test, DatabaseConnection(DB_PARAMS)
Attempt(connects) ==
    /\ pc = "start"
    /\ IF ~RetriesLeft(retry_count)
       THEN /\ pc' = "returned"
            /\ exit_code' = ExitStatus("returned")
            /\ UNCHANGED <<connvars, link, matviews, retry_count, task, cycle,
                           consecutive, reset_from, succeeded, writervars, retriedvars,
                           viewvars>>
       ELSE IF connects
       THEN /\ pc' = "merge"
            /\ link' = "open"
            /\ SetConn([db |-> db, work |-> db, tx |-> "IDLE",
                        autocommit |-> FALSE, broken |-> FALSE])
            /\ UNCHANGED <<matviews, retry_count, task, cycle, consecutive, reset_from,
                           succeeded, writervars, retriedvars, viewvars, exit_code>>
       ELSE TopLevelFailure(Conn, matviews) /\ UNCHANGED tried

\* lines 99-100: with db.autocommit(): view_manager.merge_staked_columns()
MergeStaked(check_fails) ==
    /\ pc = "merge"
    /\ \E pick \in UpdateChoices(work) :
       LET entered == AutocommitEnter(Conn)
           merged == merge_staked_columns(entered.conn, check_fails, pick)
           left == AutocommitExit(merged.conn, autocommit)
       IN  IF entered.raised THEN TopLevelFailure(entered.conn, matviews)
           ELSE IF merged.raised \/ left.raised
           THEN TopLevelFailure(left.conn, matviews)
           ELSE /\ SetConn(left.conn)
                /\ pc' = "views"
                /\ UNCHANGED <<link, matviews, retry_count, task, cycle, consecutive,
                               reset_from, succeeded, writervars, ready, viewvars,
                               exit_code>>
    /\ UNCHANGED tried

\* lines 103-109: with db.autocommit(): the two views are created; a False
\* result is logged
CreateViews(fault) ==
    /\ pc = "views"
    /\ \E rows \in DistinctOnResults(Combined(db)) :
        LET entered == AutocommitEnter(Conn)
            v1 == create_openedcommitments_consolidated_view(
                      entered.conn, matviews, fault, rows)
            v2 == create_preconf_txs_view(v1.conn, v1.views, fault)
            left == AutocommitExit(v2.conn, autocommit)
        IN  /\ tried' = (tried \/ (~entered.raised /\ ~ConsolidatedInputMissing))
            /\ IF entered.raised THEN TopLevelFailure(entered.conn, matviews)
               ELSE IF v1.raised
               THEN TopLevelFailure(AutocommitExit(v1.conn, autocommit).conn, v1.views)
               ELSE IF left.raised THEN TopLevelFailure(left.conn, v2.views)
               ELSE /\ SetConn(left.conn)
                    /\ matviews' = v2.views
                    /\ pc' = "cycle"
                    /\ UNCHANGED <<link, retry_count, task, cycle, consecutive,
                                   reset_from, succeeded, writervars, ready, viewvars,
                                   exit_code>>

Group(at) == IF at = "mev" THEN mev_commit_config
             ELSE IF at = "validator" THEN mev_commit_validator_config
             ELSE << >>

\* lines 114-118: a cycle begins: db.transaction() is entered, process_batch
\* hands the tasks of mev_commit_config to asyncio.gather
BeginCycle ==
    /\ pc = "cycle"
    /\ pc' = "mev"
    /\ task' = [ s \in StreamNames |->
                  IF s \in SeqToSet(mev_commit_config)
                  THEN [IdleTask EXCEPT !.st = "ready"] ELSE IdleTask ]
    /\ ready' = ~ConsolidatedInputMissing
    /\ UNCHANGED <<connvars, link, matviews, retry_count, cycle, consecutive, reset_from,
                   succeeded, writervars, tried, viewvars, exit_code>>

\* a task runs until it awaits its fetch; the event loop starts the tasks
\* in the order gather was given them
StartTask(s, read_fails) ==
    /\ pc \in {"mev", "validator"}
    /\ \E i \in DOMAIN Group(pc) :
          /\ Group(pc)[i] = s
          /\ task[s].st = "ready"
          /\ \A j \in 1..(i - 1) : task[Group(pc)[j]].st # "ready"
    /\ LET r == ProcessStart(Conn, s, 0, read_fails)
       IN  /\ SetConn(r.conn)
           /\ task' = [task EXCEPT ![s] = r.task]
    /\ UNCHANGED <<link, matviews, pc, retry_count, cycle, consecutive, reset_from,
                   succeeded, writervars, retriedvars, viewvars, exit_code>>

\* the fetch of a task answers, and the task runs to its end
FetchReturns(s, raises, df, fault) ==
    /\ pc \in {"mev", "validator"}
    /\ s \in SeqToSet(Group(pc))
    /\ task[s].st = "fetching"
    /\ \A s2 \in SeqToSet(Group(pc)) : task[s2].st # "ready"
    /\ LET r == ProcessResume(Conn, s, task[s], fetch_event_for_config(raises, df), fault)
       IN  /\ SetConn(r.conn)
           /\ task' = [task EXCEPT ![s] = r.task]
    /\ UNCHANGED <<link, matviews, pc, retry_count, cycle, consecutive, reset_from,
                   succeeded, writervars, retriedvars, viewvars, exit_code>>

\* faulty variant: gather returns at the first task that raises
FinishedFailFast(streams) ==
    \/ \A s \in SeqToSet(streams) : task[s].st \in {"done", "failed"}
    \/ \E s \in SeqToSet(streams) : task[s].st = "failed"

\* await asyncio.gather(*tasks, return_exceptions=True) returns when every
\* task has returned or raised
Finished(streams) == \A s \in SeqToSet(streams) : task[s].st \in {"done", "failed"}

\* lines 78 and 125: gather returns the results and the exceptions of the
\* tasks, process_batch drops them; the validator tasks are handed to gather
GatherDone ==
    /\ pc = "mev"
    /\ Finished(mev_commit_config)
    /\ pc' = "validator"
    /\ task' = [ s \in StreamNames |->
                  IF s \in SeqToSet(mev_commit_validator_config)
                  THEN [IdleTask EXCEPT !.st = "ready"]
                  ELSE [IdleTask EXCEPT !.st = task[s].st] ]
    /\ UNCHANGED <<connvars, link, matviews, retry_count, cycle, consecutive, reset_from,
                   succeeded, writervars, retriedvars, viewvars, exit_code>>

\* faulty variant: an error raised inside the cycle leaves the cycle loop
AfterCycleReraised(raised) == IF raised THEN "retry_wait" ELSE "sleep"

\* where main() goes on after a cycle: the inner `except Exception` logs the
\* error, and asyncio.sleep(30) follows in either case
AfterCycle(raised) == "sleep"

\* lines 117-144: the second gather returns; db.transaction() commits; the
\* views are refreshed in autocommit mode; retry_count = 0.  An exception
\* on the way is logged as a cycle error.  Then the cycle sleeps.
EndCycle(fault) ==
    /\ pc = "validator"
    /\ Finished(mev_commit_validator_config)
    /\ \E rows \in DistinctOnResults(Combined(work)) :
        LET committed == TransactionExit(Conn, fault = "commit")
            entered == AutocommitEnter(committed.conn)
            refreshed == refresh_all_views(entered.conn, matviews, fault, fault, rows)
            views == refreshed.views
            left == AutocommitExit(refreshed.conn, committed.conn.autocommit)
        IN  /\ called' = IF committed.raised \/ entered.raised THEN NoCall
                          ELSE Call("refresh_all_views", entered.conn, matviews,
                                    <<fault, fault>>, refreshed)
            /\ IF committed.raised \/ entered.raised \/ left.raised
               THEN /\ pc' = AfterCycle(TRUE)
                    /\ SetConn(IF committed.raised THEN committed.conn
                               ELSE IF entered.raised THEN entered.conn ELSE left.conn)
                    /\ matviews' = IF committed.raised \/ entered.raised
                                   THEN matviews ELSE views
                    /\ cycle' = "error"
                    /\ UNCHANGED <<retry_count, consecutive, reset_from, succeeded>>
               ELSE /\ pc' = AfterCycle(FALSE)
                    /\ SetConn(left.conn)
                    /\ matviews' = views
                    /\ cycle' = "ok"
                    /\ retry_count' = ResetRetryCount(retry_count)
                    /\ consecutive' = 0
                    /\ reset_from' = retry_count
                    /\ succeeded' = TRUE
    /\ task' = IdleTasks
    /\ UNCHANGED <<link, writervars, retriedvars, exit_code>>

\* line 144: asyncio.sleep(30) returns
Sleep ==
    /\ pc = "sleep"
    /\ pc' = "cycle"
    /\ cycle' = "none"
    /\ called' = NoCall
    /\ UNCHANGED <<connvars, link, matviews, retry_count, task, consecutive,
                   reset_from, succeeded, writervars, retriedvars, exit_code>>

\* lines 153-165: asyncio.sleep(retry_delay) returns; the finally clause
\* closes the connection; the loop goes round
RetryDelay ==
    /\ pc = "retry_wait"
    /\ pc' = "start"
    /\ SetConn(ConnClose(Conn))
    /\ link' = close(link)
    /\ UNCHANGED <<matviews, retry_count, task, cycle, consecutive, reset_from, succeeded,
                   writervars, retriedvars, viewvars, exit_code>>

\* main() is cancelled where it awaits: the exception is no Exception, no
\* except clause takes it; the finally clause closes the connection
Cancel ==
    /\ pc \in {"mev", "validator", "sleep", "retry_wait"}
    /\ pc' = "cancelled"
    /\ SetConn(ConnClose(Conn))
    /\ link' = close(link)
    /\ task' = IdleTasks
    /\ exit_code' = ExitStatus("KeyboardInterrupt")
    /\ UNCHANGED <<matviews, retry_count, cycle, consecutive, reset_from, succeeded,
                   writervars, retriedvars, viewvars>>

\* the process is killed, at any point, and started again: the server
\* discards what the connection had not committed, main() starts anew
Restart ==
    /\ pc \notin {"start", "writer", "views"}
    /\ pc' = "start"
    /\ SetConn([ConnClose(Conn) EXCEPT !.autocommit = FALSE])
    /\ link' = "none"
    /\ retry_count' = 0
    /\ task' = IdleTasks
    /\ cycle' = "restarted"
    /\ consecutive' = 0
    /\ reset_from' = 0
    /\ succeeded' = FALSE
    /\ exit_code' = NotExited
    /\ called' = NoCall
    /\ tried' = FALSE
    /\ ready' = FALSE
    /\ UNCHANGED <<matviews, writervars>>

\* the link to the server is lost
ConnectionLost ==
    /\ link = "open"
    /\ pc \notin {"returned", "cancelled"}
    /\ link' = "broken"
    /\ work' = db
    /\ UNCHANGED <<db, tx, autocommit, mainvars, writervars, retriedvars, viewvars>>

\* the steps of main() and of its tasks
CycleFaults == {"none", "commit", "check", "refresh"}

NextLinked ==
    \/ \E connects \in BOOLEAN : Attempt(connects)
    \/ \E check_fails \in BOOLEAN : MergeStaked(check_fails)
    \/ \E fault \in ViewFaults : CreateViews(fault)
    \/ BeginCycle
    \/ \E s \in StreamNames : \E read_fails \in BOOLEAN : StartTask(s, read_fails)
    \/ \E s \in StreamNames :
          \/ \E fault \in Faults : \E df \in SourceResults(s, task[s].from) \ {EmptyBatch} :
                FetchReturns(s, FALSE, df, fault)
          \/ FetchReturns(s, FALSE, EmptyBatch, "none")
          \/ FetchReturns(s, TRUE, EmptyBatch, "none")
    \/ GatherDone
    \/ \E fault \in CycleFaults : EndCycle(fault)
    \/ Sleep
    \/ RetryDelay
    \/ Cancel

NextMain == NextLinked \/ ConnectionLost

SpecMain == InitMain /\ [][NextMain]_vars

\* main(), on a link that stays up, in a process that can be killed and
\* started again at any point
NextRestart == NextLinked \/ Restart

SpecRestart == InitMain /\ [][NextRestart]_vars

(***************************************************************************)
(* Properties of the orchestrator (SpecMain).                              *)
(***************************************************************************)

\* C7: when a gather returns on a live connection and a stream's
\* processing has failed in the cycle, every other stream of the group
\* whose fetch returned a non-empty batch with its primary-key columns,
\* and whose own statements met no storage fault, has that batch committed
\* to its table.
C7_FailureIsolation ==
    [][
    \* a gather returns: the tasks of its group are finished and main() goes on
    LET GatherReturns == pc \in {"mev", "validator"} /\ pc' \notin {pc, "cancelled"}
    IN
    \* the rows of the batch a task handed to the writer are committed
    LET BatchCommitted(s) ==
            \A i \in DOMAIN task[s].blocks :
                \E r \in BagToSet(db[normalize_table_name(s)].rows) :
                    r["block_number"] = task[s].blocks[i]
    IN
        (GatherReturns /\ link = "open") =>
          \A s \in SeqToSet(Group(pc)) :
              ( /\ \E s2 \in StreamNames \ {s} : task[s2].st = "failed"
                /\ task[s].blocks # << >>
                /\ task[s].fault = "none" )
                  => BatchCommitted(s) ]_vars

\* C8: a cycle in which a stream's processing failed ends as a cycle error
\* and leaves retry_count as it was.
C8_StreamFailureFailsCycle ==
    [][ (pc = "validator" /\ pc' = "sleep" /\ \E s \in StreamNames : task[s].st = "failed")
          => (cycle' = "error" /\ retry_count' = retry_count) ]_vars

\* C9: retry_count counts the top-level failures since the latest
\* successful cycle; main() has returned exactly when that count is
\* max_retries (3); a top-level failure that leaves the count below 3 is
\* followed by the retry delay, and the delay by the head of the retry loop,
\* where the next attempt connects (unless main() is cancelled).
C9_BoundedRetry ==
    /\ [](retry_count = consecutive)
    /\ []((pc = "returned") <=> (consecutive = max_retries))
    /\ [][ (consecutive' = consecutive + 1 /\ consecutive' < max_retries)
             => pc' = "retry_wait" ]_vars
    /\ [][ pc = "retry_wait" => pc' \in {"start", "cancelled"} ]_vars
    /\ [][ (pc = "start" /\ pc' = "returned") => consecutive' = max_retries ]_vars
    /\ [][ (pc = "start" /\ consecutive < max_retries)
             => pc' \in {"merge", "retry_wait", "returned"} ]_vars

\* C9 witness: main() has returned after three top-level failures, one of
\* them on a connection it had opened
C9_Witness ==
    /\ pc = "returned"
    /\ retry_count = max_retries
    /\ link = "closed"

\* C10: a cycle that completes successfully sets retry_count to 0; main()
\* never returns once a cycle has succeeded, and returns only with
\* max_retries failures counted since the latest success.
C10_SuccessResetsCounter ==
    /\ [][ (cycle # "ok" /\ cycle' = "ok") => (retry_count' = 0 /\ consecutive' = 0) ]_vars
    /\ [](succeeded => pc # "returned")
    /\ [](pc = "returned" => (retry_count = max_retries /\ consecutive = max_retries))

\* C10 witness: a cycle has just succeeded after two top-level failures, and
\* retry_count is 0
C10_Witness ==
    /\ cycle = "ok"
    /\ succeeded
    /\ reset_from = 2
    /\ retry_count = 0


\* C11: when the retry budget is exhausted (main() has left its loop with
\* retry_count at max_retries), the process ends with a non-zero exit status
C11_ExhaustedBudgetExitsNonZero ==
    (pc = "returned" /\ retry_count = max_retries) => exit_code # 0

\* C17: within a cycle no view refresh is issued until the task of every
\* stream of the cycle, of the mev-commit group and of the validator
\* group, has finished, successfully or not
C17_RefreshAfterAllTasks ==
    [][ (called.fn = "none" /\ called'.fn = "refresh_all_views")
            => \A s \in StreamNames : task[s].st \in {"done", "failed"} ]_vars

\* a cycle has refreshed the consolidated view
C17_Witness ==
    /\ pc = "sleep"
    /\ called.fn = "refresh_all_views"
    /\ \E i \in DOMAIN called.stmts :
          called.stmts[i] = RefreshConcurrently("openedcommitmentstoredall")

\* C18: a view creation that was not ready is attempted again in later
\* cycles: when a cycle that began with both tables of
\* openedcommitmentstoredall present is over and the view does not exist,
\* its creation has been attempted with the tables present
C18_NotReadyCreationRetried ==
    (pc = "sleep" /\ ready /\ ~matviews["openedcommitmentstoredall"].exists) => tried

\* C20: in every cycle, the first cycle after a restart included, the fetch
\* of a stream is issued from 1 + the greatest block_number committed in the
\* stream's table, from 1 when the table does not exist
C20_ResumeFromCommittedCursor ==
    \A s \in StreamNames :
        task[s].st = "fetching" =>
            task[s].from = 1 + (IF db[normalize_table_name(s)].exists
                                THEN SqlMaxOrZero(BlockNumbers(db[normalize_table_name(s)]))
                                ELSE 0)

\* the first cycle of a restarted process fetches a stream from beyond the
\* rows the process before it had committed
C20_Witness ==
    /\ cycle = "restarted"
    /\ pc = "mev"
    /\ \E s \in SeqToSet(mev_commit_config) :
          /\ task[s].st = "fetching"
          /\ db[normalize_table_name(s)].exists
          /\ task[s].from = 1 + SqlMaxOrZero(BlockNumbers(db[normalize_table_name(s)]))
          /\ task[s].from > 1

(***************************************************************************)
(* SpecViews: the functions of the view manager, called one after another  *)
(* on a connection, on databases in which some of the tables and views     *)
(* exist.  Between the calls the blocks `with db.autocommit()` of main()   *)
(* are entered and left, streams are written and the link can be lost.    *)
(***************************************************************************)
IdleConn(tables) ==
    [ db |-> tables, work |-> tables, tx |-> "IDLE", autocommit |-> FALSE,
      broken |-> FALSE ]

InitViews ==
    \* the views such a database can hold: a view exists only when the tables
    \* it selects from exist, api.preconf_txs only when openedcommitmentstoredall
    \* exists; an index can be missing
    LET ViewsOf(tables) ==
            {NoViews} \cup
            IF \E t \in ConsolidatedSources : ~tables[t].exists THEN {}
            ELSE { [ openedcommitmentstoredall |->
                        [exists |-> TRUE, indexed |-> i1, rows |-> rows],
                     preconf_txs |-> pre ] :
                     i1 \in BOOLEAN, rows \in DistinctOnResults(Combined(tables)),
                     pre \in {NoView} \cup
                             IF \E i \in DOMAIN required_tables : ~tables[required_tables[i]].exists
                             THEN {}
                             ELSE { [exists |-> TRUE, indexed |-> i2, rows |-> {}] :
                                      i2 \in BOOLEAN } }
    IN
    \* the databases the view manager can find: none, one or both of the
    \* opened-commitment tables written, and none, two or all of the tables
    \* api.preconf_txs joins them with
    LET ViewDatabases ==
            \* a table of required_tables as its stream (for l1transactions: the
            \* process of fetch_l1_txs.py) has written it: one row, which joins with
            \* the row of the opened-commitment streams
            LET UpstreamTable(table_name) ==
                    LET row == IF table_name = "l1transactions"
                               THEN [ block_number |-> 1, hash |-> "0xa" ]
                               ELSE [ block_number |-> 1, hash |-> "0xaa", commitmentindex |-> "a" ]
                    IN  [ exists |-> TRUE,
                          cols |-> [ c \in DOMAIN row |-> IF c = "block_number" THEN "BIGINT" ELSE "TEXT" ],
                          pk |-> {"block_number", "hash"},
                          rows |-> SetToBag({row}) ]
            IN
            LET WithUpstream(tables, names) ==
                    [ t \in TableNames |-> IF t \in names THEN UpstreamTable(t) ELSE tables[t] ]
            IN
            LET opened == { NoTables,
                            write_events_to_timescale(IdleConn(NoTables),
                                MakeBatch(SourceSchema("OpenedCommitmentStored"), <<1>>, 1),
                                "OpenedCommitmentStored", "none").conn.db,
                            SeededTables }
                upstream == { {}, {"unopenedcommitmentstored", "commitmentprocessed"},
                              SeqToSet(required_tables) }
            IN  { WithUpstream(tables, names) : tables \in opened, names \in upstream }
    IN
    /\ db \in ViewDatabases
    /\ work = db
    /\ tx = "IDLE"
    /\ autocommit = FALSE
    /\ link = "open"
    /\ stream = "none"
    /\ last = "none"
    /\ changed = FALSE
    /\ seen = {}
    /\ clean = TRUE
    /\ produced = FALSE
    /\ typed = NotTyped
    /\ matviews \in ViewsOf(db)
    /\ pc = "views"
    /\ retry_count = 0
    /\ task = IdleTasks
    /\ cycle = "none"
    /\ consecutive = 0
    /\ reset_from = 0
    /\ succeeded = FALSE
    /\ exit_code = NotExited
    /\ called = NoCall
    /\ tried = FALSE
    /\ ready = FALSE

\* a function of the view manager is called and hands back r
ViewCall(fn, fault, r) ==
    /\ SetConn(r.conn)
    /\ matviews' = r.views
    /\ called' = Call(fn, Conn, matviews, fault, r)
    /\ UNCHANGED <<link, pc, retry_count, task, cycle, consecutive, reset_from,
                   succeeded, exit_code, writervars, retriedvars>>

\* the faults that tell the paths of create_preconf_txs_view apart as the
\* class stands, and those of the refresh functions
PreconfFaults == {"none", "permission"}

RefreshFaults == {"none", "check", "refresh"}

CallCreateConsolidated(fault) ==
    \E rows \in DistinctOnResults(Combined(work)) :
        ViewCall("create_openedcommitments_consolidated_view", <<fault>>,
                 create_openedcommitments_consolidated_view(Conn, matviews, fault, rows))

CallCreatePreconf(fault) ==
    ViewCall("create_preconf_txs_view", <<fault>>,
             create_preconf_txs_view(Conn, matviews, fault))

CallRefreshOpened(fault) ==
    \E rows \in DistinctOnResults(Combined(work)) :
        ViewCall("refresh_openedcommitments_view", <<fault>>,
                 refresh_openedcommitments_view(Conn, matviews, fault, rows))

CallRefreshPreconf(fault) ==
    ViewCall("refresh_preconf_txs_view", <<fault>>,
             refresh_preconf_txs_view(Conn, matviews, fault))

CallRefreshAll(fault1, fault2) ==
    \E rows \in DistinctOnResults(Combined(work)) :
        ViewCall("refresh_all_views", <<fault1, fault2>>,
                 refresh_all_views(Conn, matviews, fault1, fault2, rows))

\* `with db.autocommit()` is entered
EnterAutocommit ==
    /\ ~autocommit
    /\ SetConn(AutocommitEnter(Conn).conn)
    /\ UNCHANGED <<link, matviews, pc, retry_count, task, cycle, consecutive, reset_from,
                   succeeded, exit_code, writervars, retriedvars, viewvars>>

\* `with db.autocommit()` is left, or the transaction of a cycle ends
LeaveAutocommit ==
    /\ autocommit \/ tx # "IDLE"
    /\ SetConn(IF autocommit THEN AutocommitExit(Conn, FALSE).conn
               ELSE TransactionExit(Conn, FALSE).conn)
    /\ UNCHANGED <<link, matviews, pc, retry_count, task, cycle, consecutive, reset_from,
                   succeeded, exit_code, writervars, retriedvars, viewvars>>

\* a cycle writes a batch of an opened-commitment stream and commits
ViewsWrite(s, df) ==
    /\ ~autocommit
    /\ link = "open"
    /\ tx = "IDLE"
    /\ SetConn(write_events_to_timescale(Conn, df, s, "none").conn)
    /\ UNCHANGED <<link, matviews, pc, retry_count, task, cycle, consecutive, reset_from,
                   succeeded, exit_code, writervars, retriedvars, viewvars>>

NextViews ==
    \/ \E fault \in ViewFaults : CallCreateConsolidated(fault)
    \/ \E fault \in PreconfFaults : CallCreatePreconf(fault)
    \/ \E fault \in RefreshFaults : CallRefreshOpened(fault)
    \/ \E fault \in RefreshFaults : CallRefreshPreconf(fault)
    \/ \E fault1 \in RefreshFaults : \E fault2 \in RefreshFaults :
          CallRefreshAll(fault1, fault2)
    \/ EnterAutocommit
    \/ LeaveAutocommit
    \/ \E s \in SeqToSet(mev_commit_config) :
          \E df \in SourceResults(s, MaxBlock) \ {EmptyBatch} : ViewsWrite(s, df)
    \/ ConnectionLost

SpecViews == InitViews /\ [][NextViews]_vars

(***************************************************************************)
(* Properties of the view manager (SpecViews).                             *)
(***************************************************************************)
\* a statement other than a lookup
IsDDL(stmt) == stmt[1] # "SELECT EXISTS"

DDLOn(stmts, view) ==
    { i \in DOMAIN stmts : IsDDL(stmts[i]) /\ stmts[i][2] = view }

\* C12: a view is created only when all of its inputs exist: a call of
\* create_openedcommitments_consolidated_view with one of the two
\* opened-commitment tables missing, and a call of create_preconf_txs_view
\* with one of its three tables or the consolidated view missing, issues no
\* DDL on its view and returns False; it raises only when the link to the
\* server is lost, never to report the missing input
C12_ViewCreatedOnlyWhenInputsExist ==
    LET PreconfInputMissing ==
            \/ \E i \in DOMAIN required_tables : ~work[required_tables[i]].exists
            \/ ~called.views["openedcommitmentstoredall"].exists
    IN
    /\ (called.fn = "create_openedcommitments_consolidated_view"
            /\ ConsolidatedInputMissing)
        => /\ \A i \in DOMAIN called.stmts : ~IsDDL(called.stmts[i])
           /\ ~called.result
           /\ called.raised => link = "broken"
           /\ matviews = called.views
    /\ (called.fn = "create_preconf_txs_view" /\ PreconfInputMissing)
        => /\ DDLOn(called.stmts, "preconf_txs") = {}
           /\ ~called.result
           /\ called.raised => link = "broken"
           /\ matviews = called.views

\* the second of the two tables is found missing: both lookups were made,
\* False was returned
C12_Witness ==
    /\ called.fn = "create_openedcommitments_consolidated_view"
    /\ work["openedcommitmentstored"].exists
    /\ ~work["openedcommitmentstoredv2"].exists
    /\ called.stmts = <<SelectExists("openedcommitmentstored"),
                        SelectExists("openedcommitmentstoredv2")>>
    /\ ~called.result /\ ~called.raised

\* create_preconf_txs_view was entered on a usable connection with the three
\* tables and the consolidated view present, and the server failed none of
\* its statements
PreconfReady ==
    /\ called.fn = "create_preconf_txs_view"
    /\ called.fault = <<"none">>
    /\ called.tx = "IDLE"
    /\ link = "open"
    /\ \A i \in DOMAIN required_tables : work[required_tables[i]].exists
    /\ called.views["openedcommitmentstoredall"].exists

\* C13: when the three upstream tables and the consolidated view exist,
\* api.preconf_txs is absent and the database grants the creation of
\* schemas and materialized views, create_preconf_txs_view creates
\* api.preconf_txs, builds its unique index, populates the view and returns
\* True
C13_PreconfViewCreated ==
    (PreconfReady /\ ~called.views["preconf_txs"].exists)
        => /\ called.result
           /\ matviews["preconf_txs"].exists
           /\ matviews["preconf_txs"].indexed
           /\ \E i \in DOMAIN called.stmts : called.stmts[i] = Refresh("preconf_txs")

\* C14: when api.preconf_txs already exists and its inputs exist,
\* create_preconf_txs_view neither drops nor recreates it, creates
\* preconf_txs_unique_idx exactly when that index is missing and returns
\* True: after the call the view and its index exist, and nothing else of
\* the view has changed
C14_PreconfViewKept ==
    (PreconfReady /\ called.views["preconf_txs"].exists)
        => /\ called.result
           /\ matviews = [called.views EXCEPT !["preconf_txs"].indexed = TRUE]
           /\ \A i \in DOMAIN called.stmts :
                 /\ called.stmts[i] # DropCascade("preconf_txs")
                 /\ called.stmts[i] # CreateView("preconf_txs")
           /\ (\E i \in DOMAIN called.stmts : called.stmts[i] = CreateIndex("preconf_txs"))
                 <=> ~called.views["preconf_txs"].indexed

\* C15: when openedcommitmentstoredall already exists,
\* create_openedcommitments_consolidated_view neither drops nor recreates
\* it: the view, its rows and the view that depends on it (api.preconf_txs)
\* are in place after the call, and at most the unique index was added
C15_ConsolidatedViewKept ==
    (called.fn = "create_openedcommitments_consolidated_view"
        /\ called.views["openedcommitmentstoredall"].exists)
        => /\ \A i \in DOMAIN called.stmts :
                 /\ called.stmts[i] # DropCascade("openedcommitmentstoredall")
                 /\ called.stmts[i] # CreateView("openedcommitmentstoredall")
           /\ matviews["openedcommitmentstoredall"].exists
           /\ matviews["openedcommitmentstoredall"].rows
                 = called.views["openedcommitmentstoredall"].rows
           /\ matviews["preconf_txs"] = called.views["preconf_txs"]

\* C16: in every call of refresh_all_views the refresh of
\* openedcommitmentstoredall is over (done, failed or skipped) before the
\* refresh of api.preconf_txs is issued: every statement that names the
\* consolidated view, its lookup at least, precedes the REFRESH of the
\* aggregate view
C16_ConsolidatedRefreshedFirst ==
    called.fn = "refresh_all_views" =>
        \A j \in DOMAIN called.stmts :
            called.stmts[j] = RefreshConcurrently("preconf_txs") =>
                /\ \E i \in 1..(j - 1) :
                      called.stmts[i] = SelectExists("openedcommitmentstoredall")
                /\ \A i \in DOMAIN called.stmts :
                      called.stmts[i][2] = "openedcommitmentstoredall" => i < j

\* both views exist and both refreshes were issued
C16_Witness ==
    /\ called.fn = "refresh_all_views"
    /\ \E i \in DOMAIN called.stmts :
          called.stmts[i] = RefreshConcurrently("openedcommitmentstoredall")
    /\ \E j \in DOMAIN called.stmts :
          called.stmts[j] = RefreshConcurrently("preconf_txs")

\* the view a refresh function refreshes
RefreshedView(fn) ==
    IF fn = "refresh_openedcommitments_view" THEN "openedcommitmentstoredall"
    ELSE "preconf_txs"

RefreshFunctions == {"refresh_openedcommitments_view", "refresh_preconf_txs_view"}

\* C19: refreshing a view that does not exist is a no-op:
\* refresh_openedcommitments_view and refresh_preconf_txs_view, called when
\* their view is absent, issue no REFRESH statement, raise nothing and
\* leave the tables, the views and the connection's autocommit mode as they
\* were
C19_RefreshAbsentViewNoOp ==
    /\ [] ( (called.fn \in RefreshFunctions
                /\ ~called.views[RefreshedView(called.fn)].exists)
             => /\ \A i \in DOMAIN called.stmts : called.stmts[i][1] = "SELECT EXISTS"
                /\ ~called.raised
                /\ called.after = called.autocommit
                /\ matviews = called.views )
    /\ [][ (called' # called /\ called'.fn \in RefreshFunctions
                /\ ~matviews[RefreshedView(called'.fn)].exists)
            => /\ db' = db
               /\ matviews' = matviews
               /\ autocommit' = autocommit ]_vars

\* the aggregate view is absent: its refresh made the lookup and nothing else
C19_Witness ==
    /\ called.fn = "refresh_preconf_txs_view"
    /\ called.fault = <<"none">>
    /\ ~called.views["preconf_txs"].exists
    /\ called.stmts = <<SelectExists("preconf_txs")>>
    /\ link = "open"

\* C21: every operation that switches the connection into autocommit mode
\* leaves it, on every exit path, in the autocommit mode it had when the
\* operation was entered
C21_AutocommitModeRestored ==
    \* the operations of the view manager that set conn.autocommit
    LET AutocommitOperations ==
            {"create_openedcommitments_consolidated_view", "create_preconf_txs_view",
             "refresh_openedcommitments_view", "refresh_preconf_txs_view"}
    IN
    called.fn \in AutocommitOperations => called.after = called.autocommit

(***************************************************************************)
(* Further properties of the orchestrator (SpecMain).                      *)
(***************************************************************************)
\* C22: a cancellation that arrives while main() sleeps or awaits its
\* fetches closes the connection before main() is left, is not counted as a
\* failure and is followed by no further attempt or cycle; and whenever
\* main() is at the head of its retry loop or has been left, no connection
\* it opened is still open
C22_ConnectionReleased ==
    /\ [](pc \in {"start", "returned", "cancelled"} => link \in {"none", "closed"})
    /\ [][ (pc # "cancelled" /\ pc' = "cancelled")
              => /\ pc \in {"mev", "validator", "sleep", "retry_wait"}
                 /\ link' \in {"none", "closed"}
                 /\ retry_count' = retry_count
                 /\ consecutive' = consecutive ]_vars
    /\ [][ pc = "cancelled" => pc' = "cancelled" ]_vars
    /\ [][ (link # "open" /\ link' = "open") => link \in {"none", "closed"} ]_vars

\* main() was cancelled after one counted failure: the connection it had
\* opened is closed and the count is still 1
C22_Witness ==
    /\ pc = "cancelled"
    /\ link = "closed"
    /\ retry_count = 1
    /\ cycle = "none"

(***************************************************************************)
(* Further properties of the writer (SpecWriter).                          *)
(***************************************************************************)

\* C23: writing an empty batch is a no-op: the call returns without raising
\* and leaves the tables, the connection's transaction and its mode as they
\* were; process_event_config does the same with a fetch that answered
\* nothing; and as long as a stream has produced only empty or absent
\* batches, its table does not exist and its cursor is 0
C23_EmptyBatchNoOp ==
    /\ [][ last' = "empty"
             => UNCHANGED <<db, work, tx, autocommit, seen, clean, produced>> ]_vars
    /\ [](\A raises \in BOOLEAN :
             \* a task that awaits the fetch it asked for from block 1
             LET FetchingTask == [IdleTask EXCEPT !.st = "fetching", !.from = 1]
                 r == ProcessResume(Conn, stream, FetchingTask,
                                    fetch_event_for_config(raises, EmptyBatch), "none")
             IN  r.conn = Conn /\ r.task.st = "done" /\ r.task.blocks = << >>)
    /\ [](~produced =>
             /\ last \in {"none", "empty"}
             /\ clean
             /\ tx = "IDLE"
             /\ ~db[StreamTable].exists
             /\ ~work[StreamTable].exists
             /\ get_max_block_number(Conn, stream, FALSE).value = 0)

\* an empty batch was handed to the writer, as every batch of the stream so
\* far: the stream has no table
C23_Witness ==
    /\ last = "empty"
    /\ ~produced
    /\ ~db[StreamTable].exists

(***************************************************************************)
(* The cycle's unit of work (SpecMain).                                    *)
(***************************************************************************)

\* C24: the stream writes of a cycle are one all-or-nothing unit of work:
\* when the statements of a task meet a storage error, no row that a task
\* of the cycle had handed to the writer before is committed any more, and
\* a cycle in which that happened ends as a cycle error
C24_CycleWritesAllOrNothing ==
    /\ [][
           \* the statements of the task of stream s meet a storage error in this step
           LET StorageErrorIn(s) ==
                   /\ task[s].st = "fetching"
                   /\ task'[s].st = "failed"
                   /\ task'[s].fault \in {"ddl", "insert"}
           IN
           \* a row of the batch a task handed to the writer is in the table as the
           \* step leaves it
           LET BatchRowsKept(s) ==
                   \E i \in DOMAIN task[s].blocks :
                       \E r \in BagToSet(db'[normalize_table_name(s)].rows) :
                           r["block_number"] = task[s].blocks[i]
           IN
           \A s \in StreamNames :
              StorageErrorIn(s) =>
                  \A s2 \in StreamNames \ {s} :
                      task[s2].st = "done" => ~BatchRowsKept(s2) ]_vars
    /\ [][ (pc = "validator" /\ pc' = "sleep"
              /\ \E s \in StreamNames :
                    task[s].st = "failed" /\ task[s].fault \in {"ddl", "insert"})
            => cycle' = "error" ]_vars

(***************************************************************************)
(* The views over the life of the process (SpecMain, SpecRestart).         *)
(***************************************************************************)
\* C25: a materialized view that exists has its unique index, and REFRESH
\* MATERIALIZED VIEW CONCURRENTLY is never issued against a view without it
C25_ExistingViewIndexed ==
    /\ \A v \in ViewNames : matviews[v].exists => matviews[v].indexed
    /\ \A v \in ViewNames :
          (called.fn = "refresh_all_views"
              /\ \E i \in DOMAIN called.stmts : called.stmts[i] = RefreshConcurrently(v))
            => called.views[v].indexed

\* C26: a materialized view, once created, persists: no step of the system
\* (start, view creation, refresh, stream write, restart of the process)
\* leaves the database without a view it had
C26_ViewPersists ==
    [][ \A v \in ViewNames : matviews[v].exists => matviews'[v].exists ]_vars

(***************************************************************************)
(* Further properties of the view manager (SpecViews).                     *)
(***************************************************************************)

\* C27: every view-creation operation begins with the capability probe
\* (create the schema, create and drop the throwaway view) and issues DDL on
\* its view only after the probe's view was created; when the probe fails it
\* issues no DDL on its view and returns False without raising
C27_PreflightProbe ==
    \* the view a creation function creates
    LET CreatedView(fn) ==
            IF fn = "create_openedcommitments_consolidated_view" THEN "openedcommitmentstoredall"
            ELSE "preconf_txs"
    IN
    LET CreateFunctions ==
            {"create_openedcommitments_consolidated_view", "create_preconf_txs_view"}
    IN
    called.fn \in CreateFunctions =>
        /\ called.stmts # << >>
        /\ called.stmts[1] = CreateSchema
        /\ \A j \in DDLOn(called.stmts, CreatedView(called.fn)) :
              \E i \in 1..(j - 1) : called.stmts[i] = CreateView("test_permissions")
        /\ called.fault = <<"permission">>
              => /\ DDLOn(called.stmts, CreatedView(called.fn)) = {}
                 /\ ~called.result
                 /\ ~called.raised

(***************************************************************************)
(* The start of an attempt (SpecMain).                                     *)
(***************************************************************************)
\* C28: a failure of the migration or of the initial view creation (a
\* missing table, a failed statement, missing permissions) is not fatal:
\* on a live connection merge_staked_columns and the two create functions
\* raise nothing as main() calls them, and the step from the migration to
\* the view creation and from the view creation into the cycle loop is
\* taken with retry_count as it was
C28_StartFailuresNotFatal ==
    /\ []((pc = "merge" /\ link = "open") =>
             \A check_fails \in BOOLEAN :
                 \A pick \in UpdateChoices(work) :
                     LET entered == AutocommitEnter(Conn)
                     IN  /\ ~entered.raised
                         /\ ~merge_staked_columns(entered.conn, check_fails, pick).raised)
    /\ []((pc = "views" /\ link = "open") =>
             \A fault \in ViewFaults \cup PreconfFaults :
                 \A rows \in DistinctOnResults(Combined(db)) :
                     LET entered == AutocommitEnter(Conn)
                         v1 == create_openedcommitments_consolidated_view(
                                   entered.conn, matviews, fault, rows)
                         v2 == create_preconf_txs_view(v1.conn, v1.views, fault)
                     IN  ~entered.raised /\ ~v1.raised /\ ~v2.raised)
    /\ [][ (pc = "merge" /\ link = "open" /\ link' = "open")
              => (pc' = "views" /\ retry_count' = retry_count
                    /\ consecutive' = consecutive) ]_vars
    /\ [][ (pc = "views" /\ link = "open" /\ link' = "open")
              => (pc' = "cycle" /\ retry_count' = retry_count
                    /\ consecutive' = consecutive) ]_vars

\* the creation of openedcommitmentstoredall was attempted with both tables
\* present and failed; main() stands at its first cycle, nothing is counted
C28_Witness ==
    /\ pc = "cycle"
    /\ tried
    /\ ~matviews["openedcommitmentstoredall"].exists
    /\ retry_count = 0
    /\ ~succeeded
    /\ cycle = "none"
    /\ link = "open"

(***************************************************************************)
(* SpecMerge: merge_staked_columns called, inside and outside              *)
(* `with db.autocommit()`, on databases in which staked and staked_old     *)
(* exist or not and hold rows that join or not.                            *)
(***************************************************************************)

MergeTable(names, rows) ==
    [ exists |-> TRUE,
      cols |-> [ c \in names |-> IF c = "block_number" THEN "BIGINT"
                                 ELSE IF c = "amount" THEN "NUMERIC(78)" ELSE "TEXT" ],
      pk |-> SeqToSet(get_primary_key_columns("staked")),
      rows |-> SetToBag(rows) ]

InitMerge ==
    LET Senders == {"a", "b"}
    IN
    LET MergeKeys == {"k1", "k2"}
    IN
    \* staked_old: absent, or holding no, one or two rows of the key k1
    LET StakedOldTables ==
            \* a row of staked_old
            LET StakedOldRow(bn, k, o) ==
                    IF o = SqlNull
                    THEN [ block_number |-> bn, valblspubkey |-> k ]
                    ELSE [ block_number |-> bn, valblspubkey |-> k, txoriginator |-> o ]
            IN
            { NoTable }
            \cup { MergeTable({"block_number", "valblspubkey", "txoriginator"},
                              { StakedOldRow(bn, "k1", o[bn]) : bn \in { b \in 1..2 : o[b] # "absent" } }) :
                     o \in { f \in [1..2 -> Senders \cup {SqlNull, "absent"}] : f[2] # SqlNull } }
    IN
    \* staked: absent, written by the stream without a msgsender column, or
    \* holding for each key no row or one row
    LET StakedTables ==
            \* a row of staked; a msgsender of SqlNull is a row inserted without one
            LET StakedRow(k, m) ==
                    IF m = SqlNull
                    THEN [ block_number |-> 1, valblspubkey |-> k, amount |-> "1" ]
                    ELSE [ block_number |-> 1, valblspubkey |-> k, amount |-> "1", msgsender |-> m ]
            IN
            { NoTable,
              write_events_to_timescale(IdleConn(NoTables),
                  MakeBatch(SourceSchema("Staked"), <<1>>, 1), "Staked", "none").conn.db["staked"] }
            \cup { MergeTable({"block_number", "valblspubkey", "amount", "msgsender"},
                              { StakedRow(k, m[k]) : k \in { k \in MergeKeys : m[k] # "absent" } }) :
                     m \in [MergeKeys -> Senders \cup {SqlNull, "absent"}] }
    IN
    LET MergeDatabases ==
            { [NoTables EXCEPT !["staked"] = s, !["staked_old"] = o] :
                s \in StakedTables, o \in StakedOldTables }
    IN
    /\ db \in MergeDatabases
    /\ work = db
    /\ tx = "IDLE"
    /\ autocommit = FALSE
    /\ link = "open"
    /\ stream = "none"
    /\ last = "none"
    /\ changed = FALSE
    /\ seen = {}
    /\ clean = TRUE
    /\ produced = FALSE
    /\ typed = NotTyped
    /\ matviews = NoViews
    /\ pc = "merge"
    /\ retry_count = 0
    /\ task = IdleTasks
    /\ cycle = "none"
    /\ consecutive = 0
    /\ reset_from = 0
    /\ succeeded = FALSE
    /\ exit_code = NotExited
    /\ called = NoCall
    /\ tried = FALSE
    /\ ready = FALSE

\* view_manager.merge_staked_columns() is called
CallMerge(check_fails) ==
    /\ called.fn = "none"
    /\ \E pick \in UpdateChoices(work) :
          LET r == merge_staked_columns(Conn, check_fails, pick)
          IN  ViewCall("merge_staked_columns",
                       <<IF check_fails THEN "check" ELSE "none">>,
                       Returned(r.conn, matviews, r.result, r.raised, r.stmts))

\* the caller goes on
MergeReturned ==
    /\ called.fn # "none"
    /\ called' = NoCall
    /\ UNCHANGED <<connvars, link, mainvars, writervars, retriedvars>>

NextMerge ==
    \/ \E check_fails \in BOOLEAN : CallMerge(check_fails)
    \/ MergeReturned
    \/ EnterAutocommit
    \/ LeaveAutocommit

SpecMerge == InitMerge /\ [][NextMerge]_vars

\* the call of this step issued the UPDATE
UpdateIssued == \E i \in DOMAIN called'.stmts : called'.stmts[i] = UpdateStaked

\* C29: merge_staked_columns issues its UPDATE, and commits, only when
\* staked and staked_old exist and a row of staked has a msgsender other
\* than the non-null txoriginator of a row of staked_old with the same
\* valblspubkey; otherwise it changes nothing.  The UPDATE changes the
\* msgsender of such rows of staked and nothing else: every other table,
\* the columns and the key of staked, the number of its rows and every
\* other column of every row are as they were
C29_MergeOnlyMatchingRows ==
    [][
    \* row r2 is row r, but for a msgsender taken from a row of staked_old that
    \* has r's valblspubkey and a non-null txoriginator other than r's msgsender
    LET MergedFrom(tables, r, r2) ==
            /\ DOMAIN r2 \ {"msgsender"} = DOMAIN r \ {"msgsender"}
            /\ \A c \in DOMAIN r \ {"msgsender"} : r2[c] = r[c]
            /\ Cell(r2, "msgsender") # Cell(r, "msgsender")
                 => \E o \in BagToSet(tables["staked_old"].rows) :
                       /\ Cell(r, "valblspubkey") = Cell(o, "valblspubkey")
                       /\ Cell(o, "txoriginator") # SqlNull
                       /\ Cell(r, "msgsender") # Cell(o, "txoriginator")
                       /\ Cell(r2, "msgsender") = Cell(o, "txoriginator")
    IN
    \* a row of staked the msgsender of which differs from the non-null
    \* txoriginator of a row of staked_old with the same valblspubkey
    LET MergeNeeded(tables) ==
            \E r \in BagToSet(tables["staked"].rows) :
                \E o \in BagToSet(tables["staked_old"].rows) :
                    /\ Cell(r, "valblspubkey") = Cell(o, "valblspubkey")
                    /\ Cell(o, "txoriginator") # SqlNull
                    /\ Cell(r, "msgsender") # Cell(o, "txoriginator")
    IN
    \* this step is a call of merge_staked_columns
    LET MergeCalled == called.fn = "none" /\ called'.fn = "merge_staked_columns"
    IN
        MergeCalled =>
          /\ UpdateIssued =>
                /\ work["staked"].exists /\ work["staked_old"].exists
                /\ MergeNeeded(work)
                /\ tx' = "IDLE" /\ db' = work'
          /\ ~UpdateIssued => (db' = db /\ work' = work)
          /\ \A t \in TableNames \ {"staked"} : db'[t] = db[t]
          /\ db'["staked"].exists = db["staked"].exists
          /\ db'["staked"].cols = db["staked"].cols
          /\ db'["staked"].pk = db["staked"].pk
          /\ BagCardinality(db'["staked"].rows) = BagCardinality(db["staked"].rows)
          /\ \A r \in BagToSet(db["staked"].rows) :
                \E r2 \in BagToSet(db'["staked"].rows) : MergedFrom(db, r, r2)
          /\ matviews' = matviews ]_vars

\* the UPDATE was issued and committed: a row of k1 has taken its msgsender
\* from staked_old, next to a row of k2, which joins with no row
C29_Witness ==
    /\ called.fn = "merge_staked_columns"
    /\ \E i \in DOMAIN called.stmts : called.stmts[i] = UpdateStaked
    /\ tx = "IDLE"
    /\ \E r \in BagToSet(db["staked"].rows) :
          /\ r["valblspubkey"] = "k1"
          /\ \E o \in BagToSet(db["staked_old"].rows) :
                Cell(o, "txoriginator") = Cell(r, "msgsender")
    /\ \E r \in BagToSet(db["staked"].rows) : r["valblspubkey"] = "k2"

(***************************************************************************)
(* SpecTyping: create_or_update_event_table called on an open connection   *)
(* to an empty database with a batch of one row of any schema of at most   *)
(* MaxColumns columns, each of any dtype.                                  *)
(***************************************************************************)
MaxColumns == 3

InitTyping ==
    \* every schema of 1..MaxColumns of the names, each column of any dtype
    LET TypedSchemas ==
            LET DTypes == {"Datetime", "Int64", "Float64", "Boolean", "UInt64", "Utf8", "Int32"}
            IN
            LET TypedNames == {"block_number", "hash", "Hash", "valblspubkey", "amount", "window"}
            IN
            UNION { [ names -> DTypes ] :
                      names \in { n \in SUBSET TypedNames :
                                    Cardinality(n) \in 1..MaxColumns } }
    IN
    /\ db = NoTables
    /\ work = NoTables
    /\ tx = "IDLE"
    /\ autocommit = FALSE
    /\ link = "open"
    /\ stream \in WriterStreams
    /\ last = "none"
    /\ changed = FALSE
    /\ seen = {}
    /\ clean = TRUE
    /\ produced = FALSE
    /\ typed \in { [ schema |-> s, columns |-> {}, done |-> FALSE ] : s \in TypedSchemas }
    /\ matviews = NoViews
    /\ pc = "typing"
    /\ retry_count = 0
    /\ task = IdleTasks
    /\ cycle = "none"
    /\ consecutive = 0
    /\ reset_from = 0
    /\ succeeded = FALSE
    /\ exit_code = NotExited
    /\ called = NoCall
    /\ tried = FALSE
    /\ ready = FALSE

\* create_or_update_event_table(conn, stream, df): schema_columns is derived
\* before any statement is sent
CreateEventTable(ddl_fails) ==
    LET df == MakeBatch(typed.schema, <<1>>, 1)
        r == create_or_update_event_table(Conn, stream, df, ddl_fails)
    IN  /\ SetConn(r.conn)
        /\ typed' = [typed EXCEPT !.columns = convert_schema_to_timescale(df.schema),
                                  !.done = TRUE]
        /\ UNCHANGED <<link, stream, last, changed, seen, clean, produced, mainvars,
                       viewvars, retriedvars>>

NextTyping == \E ddl_fails \in BOOLEAN : CreateEventTable(ddl_fails)

SpecTyping == InitTyping /\ [][NextTyping]_vars

\* C30: the column typing policy gives every column of a schema exactly one
\* storage type, by the name of the column first and by its dtype second:
\* block_number is BIGINT and hash and valblspubkey are TEXT whatever their
\* dtype; any other column is TIMESTAMPTZ for Datetime, BIGINT for Int64,
\* DOUBLE PRECISION for Float64, BOOLEAN for Boolean, NUMERIC(78) for UInt64
\* and TEXT for every other dtype; a table created from the schema has its
\* columns of these types.
C30_ColumnTypingPolicy ==
    typed.done =>
        /\ Cardinality(typed.columns) = Cardinality(DOMAIN typed.schema)
        /\ \A name \in DOMAIN typed.schema :
             LET dtype == typed.schema[name]
                 column == PgIdentifier(escape_column_name(name))
                 given == { sc[2] : sc \in { c \in typed.columns :
                                               c[1] = escape_column_name(name) } }
                 by_dtype == CASE dtype = "Datetime" -> "TIMESTAMPTZ"
                               [] dtype = "Int64" -> "BIGINT"
                               [] dtype = "Float64" -> "DOUBLE PRECISION"
                               [] dtype = "Boolean" -> "BOOLEAN"
                               [] dtype = "UInt64" -> "NUMERIC(78)"
                               [] OTHER -> "TEXT"
                 expected == CASE column = "block_number" -> "BIGINT"
                               [] column \in {"hash", "valblspubkey"} -> "TEXT"
                               [] OTHER -> by_dtype
                 table == db[normalize_table_name(stream)]
             IN  /\ given = {expected}
                 /\ table.exists =>
                      /\ column \in DOMAIN table.cols
                      /\ table.cols[column] = expected

\* a table has been created from a schema whose block_number is text, whose
\* hash is an unsigned integer and whose amount is an unsigned integer: the
\* first two are typed by their names, the third by its dtype
C30_Witness ==
    /\ typed.done
    /\ typed.schema = [ c \in {"block_number", "hash", "amount"} |->
                          IF c = "block_number" THEN "Utf8" ELSE "UInt64" ]
    /\ db["openedcommitmentstored"].exists
    /\ db["openedcommitmentstored"].cols =
         [ c \in {"block_number", "hash", "amount"} |->
             IF c = "block_number" THEN "BIGINT"
             ELSE IF c = "hash" THEN "TEXT" ELSE "NUMERIC(78)" ]

(***************************************************************************)
(* Schema evolution on an existing table.                                  *)
(***************************************************************************)
\* C31: a write to an existing table that reaches the ALTER TABLE loop
\* without a storage fault adds a column of the batch if and only if no
\* existing column has its name, compared in lower case with the quotes
\* removed; the loop never fails by adding a column a second time, and every
\* column of the batch is a column of the table afterwards.
C31_UnseenColumnsAddedOnce ==
    db[StreamTable].exists =>
        \A df \in Batches[stream] : \A fault \in {"none", "insert"} :
            LET r == Written(df, fault)
                before == DOMAIN db[StreamTable].cols
                after == DOMAIN r.conn.db[StreamTable].cols
                known(c) == \E e \in before :
                               StrLower(StrUnquote(e))
                                 = StrLower(StrUnquote(escape_column_name(
                                       normalize_column_name(c))))
            IN  (HasPrimaryKey(df) /\ ~(r.outcome = "rename")) =>
                    /\ r.outcome # "ddl_error"
                    /\ before \subseteq after
                    /\ \A c \in DOMAIN df.schema :
                          /\ normalize_column_name(c) \in after
                          /\ normalize_column_name(c) \in after \ before <=> ~known(c)
                    /\ after \ before \subseteq ColumnNamesOf(df)

\* the table has the reserved-word column window and the column amount, one
\* of its rows was written without window and another with it: one of the
\* two columns was added by a write to the existing table
C31_Witness ==
    /\ last = "written"
    /\ db[StreamTable].exists
    /\ {"amount", "window"} \subseteq DOMAIN db[StreamTable].cols
    /\ \E r1 \in BagToSet(db[StreamTable].rows) : "window" \notin DOMAIN r1
    /\ \E r2 \in BagToSet(db[StreamTable].rows) : "window" \in DOMAIN r2

(***************************************************************************)
(* SpecDedup: create_openedcommitments_consolidated_view called, again and *)
(* again, inside main()'s `with db.autocommit()` on a database whose two   *)
(* opened-commitment tables hold rows of two commitment indexes, two       *)
(* transaction hashes and two block numbers.                               *)
(***************************************************************************)
InitDedup ==
    \* a row of an opened-commitment table, written at block bn
    LET OpenedRow(t, bn, ci, th, b) ==
            [ c \in DOMAIN SeededTables[t].cols |->
                CASE c = "block_number" -> bn
                  [] c = "hash" -> "0xaa"
                  [] c = "commitmentindex" -> ci
                  [] c = "txnhash" -> th
                  [] c = "blocknumber" -> b
                  [] OTHER -> "1" ]
    IN
    \* the contents of a table: for each of the blocks 1..n no row or one row
    \* of the given commitment indexes, transaction hashes and block numbers
    LET Contents(t, n, values) ==
            { [SeededTables[t] EXCEPT !.rows =
                  SetToBag({ OpenedRow(t, bn, f[bn][1], f[bn][2], f[bn][3]) :
                               bn \in { x \in 1..n : f[x] # <<>> } })] :
                f \in [1..n -> {<<>>} \cup values] }
    IN
    /\ db \in { [NoTables EXCEPT !["openedcommitmentstored"] = t1,
                                 !["openedcommitmentstoredv2"] = t2] :
                  t1 \in Contents("openedcommitmentstored", 2,
                                  {"a", "b"} \X {"a", "b"} \X {"1", "2"}),
                  t2 \in Contents("openedcommitmentstoredv2", 1, {<<"a", "a", "2">>}) }
    /\ work = db
    /\ tx = "IDLE"
    /\ autocommit = TRUE
    /\ link = "open"
    /\ stream = "none"
    /\ last = "none"
    /\ changed = FALSE
    /\ seen = {}
    /\ clean = TRUE
    /\ produced = FALSE
    /\ typed = NotTyped
    /\ matviews = NoViews
    /\ pc = "dedup"
    /\ retry_count = 0
    /\ task = IdleTasks
    /\ cycle = "none"
    /\ consecutive = 0
    /\ reset_from = 0
    /\ succeeded = FALSE
    /\ exit_code = NotExited
    /\ called = NoCall
    /\ tried = FALSE
    /\ ready = FALSE

NextDedup == \E fault \in ViewFaults : CallCreateConsolidated(fault)

SpecDedup == InitDedup /\ [][NextDedup]_vars

\* C32: whatever rows the two opened-commitment tables hold, a creation of
\* openedcommitmentstoredall that is called in autocommit mode, as main()
\* calls it, and meets no storage fault ends with the view
\* and its unique index present, and the view holds for every
\* (commitmentIndex, txnHash) of the tables exactly one row, one with the
\* greatest blocknumber of that key.
C32_DeduplicatedViewIndexed ==
    (/\ called.fn = "create_openedcommitments_consolidated_view"
     /\ called.fault = <<"none">>
     /\ called.autocommit)
        => LET v == matviews["openedcommitmentstoredall"]
               combined == Combined(db)
               key(r) == <<r.commitmentindex, r.txnhash>>
               greater(a, b) == a = "2" /\ b = "1"
           IN  /\ called.result
               /\ v.exists
               /\ v.indexed
               /\ v.rows \subseteq combined
               /\ \A r \in combined :
                     /\ Cardinality({ r2 \in v.rows : key(r2) = key(r) }) = 1
                     /\ \A r2 \in v.rows :
                           key(r2) = key(r) => ~greater(r.blocknumber, r2.blocknumber)

(***************************************************************************)
(* The stream tasks of a cycle on the shared connection.                   *)
(***************************************************************************)
\* C33: while a task of the cycle can still be scheduled the connection
\* holds no uncommitted change; and the step in which a task hands its batch
\* to write_events_to_timescale runs the write to its commit or rollback:
\* it leaves every other task and every other stream's table as they were,
\* and, on a live connection, no transaction open and nothing uncommitted.
C33_WritesDoNotInterleave ==
    /\ []((/\ link = "open"
           /\ \E s \in StreamNames : task[s].st \in {"ready", "fetching"})
              => work = db)
    /\ [][ \A s \in StreamNames :
              (/\ task[s].st = "fetching"
               /\ task'[s].st \in {"done", "failed"}
               /\ task'[s].blocks # << >>)
                  => /\ \A s2 \in StreamNames \ {s} :
                           /\ task'[s2] = task[s2]
                           /\ db'[normalize_table_name(s2)] = db[normalize_table_name(s2)]
                           /\ work'[normalize_table_name(s2)]
                                = work[normalize_table_name(s2)]
                     /\ link = "open" => (tx' = "IDLE" /\ work' = db') ]_vars

\* a task has written its batch while another task of its group, started
\* before the write, still awaits its fetch
C33_Witness ==
    /\ link = "open"
    /\ pc = "mev"
    /\ task["OpenedCommitmentStored"].st = "done"
    /\ task["OpenedCommitmentStored"].blocks # << >>
    /\ task["OpenedCommitmentStoredV2"].st = "fetching"
    /\ db["openedcommitmentstored"].exists
    /\ db["openedcommitmentstored"].rows # EmptyBag
    /\ work = db

(***************************************************************************)
(* The cycle loop.                                                         *)
(***************************************************************************)
\* C34: once main() is in the cycle loop it stays there until it is
\* cancelled: no step of a cycle raises retry_count or ends the process, the
\* end of the two gathers is followed by the sleep, whether the cycle raised
\* or not, and the sleep by the next cycle.
C34_CycleErrorsStayInLoop ==
    [][ (pc \in {"cycle", "mev", "validator", "sleep"}) =>
          /\ pc' \in {"cycle", "mev", "validator", "sleep", "cancelled"}
          /\ retry_count' <= retry_count
          /\ consecutive' <= consecutive
          /\ exit_code' # exit_code => pc' = "cancelled"
          /\ (pc = "validator" /\ pc' \notin {"validator", "cancelled"})
                => (pc' = "sleep" /\ cycle' \in {"ok", "error"})
          /\ (pc = "sleep" /\ pc' \notin {"sleep", "cancelled"}) => pc' = "cycle" ]_vars

\* a cycle has raised (a stream, the commit or the refresh failed) and
\* main() is at the sleep that follows it, its retry_count untouched
C34_Witness ==
    /\ pc = "sleep"
    /\ cycle = "error"
    /\ retry_count = 0
    /\ exit_code = NotExited

(***************************************************************************)
(* The cursor over the life of the database.                               *)
(***************************************************************************)
\* C35: for every stream, no step (of a cycle, a failed write, a rollback,
\* merge_staked_columns, a view operation, a restart of the process) lowers
\* the value get_max_block_number reads, neither the one a fresh connection
\* reads from the committed tables nor the one the open connection reads;
\* and a task asks the source for the blocks after that value.
C35_CursorNeverDecreases ==
    [][ \A s \in StreamNames :
          LET committed == get_max_block_number(IdleConn(db), s, FALSE).value
              committed2 == get_max_block_number(IdleConn(db'), s, FALSE).value
              read == get_max_block_number(Conn, s, FALSE)
              read2 == get_max_block_number(Conn', s, FALSE)
          IN  /\ db'[normalize_table_name(s)] # db[normalize_table_name(s)]
                    => committed2 >= committed
              /\ (/\ work'[normalize_table_name(s)] # work[normalize_table_name(s)]
                  /\ ~read.raised /\ ~read2.raised) => read2.value >= read.value
              /\ (task[s].st = "ready" /\ task'[s].st = "fetching")
                    => (task'[s].from = committed + 1 /\ task'[s].from = read.value + 1)
      ]_vars

\* a restarted process has started the task of a stream whose table holds
\* rows of an earlier process: it asks for the blocks after the cursor
C35_Witness ==
    /\ cycle = "restarted"
    /\ task["OpenedCommitmentStored"].st = "fetching"
    /\ task["OpenedCommitmentStored"].from >= 2
    /\ db["openedcommitmentstored"].rows # EmptyBag
    /\ task["OpenedCommitmentStored"].from
         = get_max_block_number(Conn, "OpenedCommitmentStored", FALSE).value + 1

\* C36: refresh_all_views never raises: when the refresh of the
\* consolidated view fails (its lookup, its REFRESH statement or the change
\* of the autocommit mode), the failure stays inside the call, the refresh
\* of the aggregate view is still attempted afterwards in the same call (its
\* lookup is issued after every statement on the consolidated view), and the
\* connection's autocommit mode after the call is the mode before it
C36_RefreshAllNeverRaises ==
    /\ [] ( called.fn = "refresh_all_views"
             => /\ ~called.raised
                /\ called.after = called.autocommit
                /\ \E j \in DOMAIN called.stmts :
                      /\ called.stmts[j] = SelectExists("preconf_txs")
                      /\ \A i \in DOMAIN called.stmts :
                            called.stmts[i][2] = "openedcommitmentstoredall" => i < j )
    /\ [][ (called' # called /\ called'.fn = "refresh_all_views")
            => autocommit' = autocommit ]_vars

\* in autocommit mode, with both views in place, the REFRESH of the
\* consolidated view failed and the REFRESH of the aggregate view was issued
\* after it
C36_Witness ==
    /\ called.fn = "refresh_all_views"
    /\ called.fault = <<"refresh", "none">>
    /\ called.autocommit
    /\ called.views["openedcommitmentstoredall"].exists
    /\ called.stmts = <<SelectExists("openedcommitmentstoredall"),
                        RefreshConcurrently("openedcommitmentstoredall"),
                        SelectExists("preconf_txs"),
                        RefreshConcurrently("preconf_txs")>>

(***************************************************************************)
(* The L1-transaction pipeline (src/fetch_l1_txs.py): a process of its own *)
(* with a connection of its own (SpecL1).  pc is where its main() stands:  *)
(* "l1_start", "l1_cycle" (the head of the while loop), "l1_fetching"      *)
(* (process_l1_transactions awaits fetch_txs), "l1_sleep", and "returned"  *)
(* or "cancelled" once main() is left.  called is the latest call of       *)
(* get_transaction_hashes, its result the list main() binds to tx_hashes   *)
(* (as a set: the query has no ORDER BY); last is the outcome of the       *)
(* latest write_events_to_timescale call, produced whether fetch_txs has   *)
(* been awaited.                                                           *)
(***************************************************************************)
\* db.get_connection(): a connection whose link is lost counts as closed and
\* psycopg.connect is called again, which gives a fresh connection or
\* raises.  The result is [conn, raised].
get_connection(conn, connects) ==
    IF ~conn.broken THEN [conn |-> conn, raised |-> FALSE]
    ELSE IF connects THEN [conn |-> IdleConn(conn.db), raised |-> FALSE]
    ELSE [conn |-> conn, raised |-> TRUE]

\* faulty variant: without the outer except clause, what the rollback or
\* the commit of db.transaction() raises, or re-raises, leaves the function
get_transaction_hashes_unguarded(conn, views, connects, fault) ==
    \* blocknumber > %s: a NULL blocknumber compares to nothing
    LET After(blocknumber, max_block) ==
            CASE blocknumber = "1" -> 1 > max_block
              [] blocknumber = "2" -> 2 > max_block
              [] OTHER -> FALSE
    IN
    \* the except clause of db.transaction(): rollback and raise; on a lost
    \* link the rollback raises in its turn
    LET Failed(c, stmts) ==
            Returned(IF c.broken THEN c ELSE ConnRollback(c), views, {}, TRUE, stmts)
    IN
    \* return inside the with block: db.transaction() commits
    LET Left(c, tx_hashes, stmts) ==
            LET committed == TransactionExit(c, FALSE)
            IN  Returned(committed.conn, views,
                         IF committed.raised THEN {} ELSE tx_hashes, committed.raised,
                         stmts)
    IN
    LET got == get_connection(conn, connects)
        read == get_max_block_number(got.conn, "l1transactions", fault = "max")
        t1 == <<SelectExists("openedcommitmentstoredall")>>
        t2 == t1 \o <<<<"SELECT txnhash", "openedcommitmentstoredall">>>>
    IN  IF got.raised THEN Failed(conn, << >>)
        ELSE IF read.raised THEN Failed(read.conn, << >>)
        ELSE IF StatementRaises(read.conn, fault = "check")
        THEN Failed(ConnFailed(read.conn), t1)
        ELSE
        LET c1 == ConnExecuted(read.conn, read.conn.work)
            view == views["openedcommitmentstoredall"]
        IN  IF ~view.exists THEN Left(c1, {}, t1)
            ELSE IF fault = "lost"
            THEN Left([c1 EXCEPT !.broken = TRUE, !.work = c1.db], {}, t2)
            ELSE IF fault = "query" THEN Left(ConnFailed(c1), {}, t2)
            ELSE Left(c1, { r.txnhash : r \in { x \in view.rows :
                                                 After(x.blocknumber, read.value) } }, t2)

\* get_transaction_hashes: inside `with db.transaction()` the cursor of
\* l1transactions is read, openedcommitmentstoredall is looked up in
\* pg_matviews and, when it is there, the txnhash of its rows with
\* blocknumber > max_block is selected.  The query's own except clause
\* returns []; the outer one returns [] for whatever else is raised, the
\* rollback and the commit of db.transaction() included.  fault: "none", or
\* the statement the server fails ("max", "check", "query"), or "lost": the
\* link is lost while the query runs.  The result is [conn, views, result,
\* raised, stmts].
get_transaction_hashes(conn, views, connects, fault) ==
    \* blocknumber > %s: a NULL blocknumber compares to nothing
    LET After(blocknumber, max_block) ==
            CASE blocknumber = "1" -> 1 > max_block
              [] blocknumber = "2" -> 2 > max_block
              [] OTHER -> FALSE
    IN
    \* the except clause of db.transaction(): rollback and raise; on a lost
    \* link the rollback raises in its turn
    LET Failed(c, stmts) ==
            Returned(IF c.broken THEN c ELSE ConnRollback(c), views, {}, FALSE, stmts)
    IN
    \* return inside the with block: db.transaction() commits
    LET Left(c, tx_hashes, stmts) ==
            LET committed == TransactionExit(c, FALSE)
            IN  Returned(committed.conn, views,
                         IF committed.raised THEN {} ELSE tx_hashes, FALSE, stmts)
    IN
    LET got == get_connection(conn, connects)
        read == get_max_block_number(got.conn, "l1transactions", fault = "max")
        t1 == <<SelectExists("openedcommitmentstoredall")>>
        t2 == t1 \o <<<<"SELECT txnhash", "openedcommitmentstoredall">>>>
    IN  IF got.raised THEN Failed(conn, << >>)
        ELSE IF read.raised THEN Failed(read.conn, << >>)
        ELSE IF StatementRaises(read.conn, fault = "check")
        THEN Failed(ConnFailed(read.conn), t1)
        ELSE
        LET c1 == ConnExecuted(read.conn, read.conn.work)
            view == views["openedcommitmentstoredall"]
        IN  IF ~view.exists THEN Left(c1, {}, t1)
            ELSE IF fault = "lost"
            THEN Left([c1 EXCEPT !.broken = TRUE, !.work = c1.db], {}, t2)
            ELSE IF fault = "query" THEN Left(ConnFailed(c1), {}, t2)
            ELSE Left(c1, { r.txnhash : r \in { x \in view.rows :
                                                 After(x.blocknumber, read.value) } }, t2)

\* what fetch_txs can hand back for a non-empty list: None (nothing found,
\* or every chunk failed), as the empty batch, or the transactions of a
\* block
L1Results ==
    {EmptyBatch} \cup
    { MakeBatch([ c \in {"block_number", "hash"} |->
                    IF c = "hash" THEN "Utf8" ELSE "UInt64" ], <<b>>, 1) : b \in 1..MaxBlock }

InitL1 ==
    \* the rows main.py's process can have left in openedcommitmentstoredall:
    \* at most one for each (commitmentindex, txnhash)
    LET ViewRows ==
            { rows \in SUBSET { [ commitmentindex |-> "a", txnhash |-> h,
                                  blocknumber |-> b, bid |-> "1" ] :
                                  h \in {"a", "b"}, b \in {"1", "2"} } :
                \A r1 \in rows : \A r2 \in rows : r1.txnhash = r2.txnhash => r1 = r2 }
    IN
    \* l1transactions: not created yet, or written by an earlier run
    LET L1Databases ==
            {SeededTables} \cup
            { write_events_to_timescale(IdleConn(SeededTables), df, "l1transactions",
                                        "none").conn.db : df \in L1Results \ {EmptyBatch} }
    IN
    /\ db \in L1Databases
    /\ work = db
    /\ tx = "IDLE"
    /\ autocommit = FALSE
    /\ link = "none"
    /\ stream = "none"
    /\ last = "none"
    /\ changed = FALSE
    /\ seen = {}
    /\ clean = TRUE
    /\ produced = FALSE
    /\ typed = NotTyped
    /\ matviews \in {NoViews} \cup
                    { [NoViews EXCEPT !["openedcommitmentstoredall"] =
                          [exists |-> TRUE, indexed |-> TRUE, rows |-> rows]] :
                        rows \in ViewRows }
    /\ pc = "l1_start"
    /\ retry_count = 0
    /\ task = IdleTasks
    /\ cycle = "none"
    /\ consecutive = 0
    /\ reset_from = 0
    /\ succeeded = FALSE
    /\ exit_code = NotExited
    /\ called = NoCall
    /\ tried = FALSE
    /\ ready = FALSE

\* main(), lines 131-136: DatabaseConnection(DB_PARAMS) connects or raises;
\* when it raises, db is None and main() is left through its except clause
L1Start(connects) ==
    /\ pc = "l1_start"
    /\ IF connects
       THEN pc' = "l1_cycle" /\ link' = "open" /\ exit_code' = exit_code
       ELSE pc' = "returned" /\ link' = link /\ exit_code' = ExitStatus("returned")
    /\ UNCHANGED <<connvars, matviews, retry_count, task, cycle, consecutive, reset_from,
                   succeeded, writervars, retriedvars, viewvars>>

\* lines 137-144: a cycle begins: get_transaction_hashes is called, then
\* process_l1_transactions, which returns at once for an empty list and
\* awaits fetch_txs otherwise.  An exception of get_transaction_hashes
\* would leave main() through its except clause and close the connection.
L1Cycle(connects, fault) ==
    /\ pc = "l1_cycle"
    /\ LET r == get_transaction_hashes(Conn, matviews, connects, fault)
       IN  /\ called' = Call("get_transaction_hashes", Conn, matviews, <<fault>>, r)
           /\ IF r.raised
              THEN /\ pc' = "returned"
                   /\ SetConn(ConnClose(r.conn))
                   /\ link' = close(link)
                   /\ exit_code' = ExitStatus("returned")
              ELSE /\ pc' = IF r.result = {} THEN "l1_sleep" ELSE "l1_fetching"
                   /\ SetConn(r.conn)
                   /\ link' = IF r.conn.broken THEN "broken" ELSE "open"
                   /\ exit_code' = exit_code
    /\ UNCHANGED <<matviews, retry_count, task, cycle, consecutive, reset_from, succeeded,
                   writervars, retriedvars>>

\* process_l1_transactions, lines 109-122: fetch_txs has answered (or
\* raised); a batch with rows is written to l1transactions over
\* db.get_connection(); whatever is raised is logged and dropped
L1Fetched(raises, df, connects, fault) ==
    /\ pc = "l1_fetching"
    /\ pc' = "l1_sleep"
    /\ produced' = TRUE
    /\ LET got == get_connection(Conn, connects)
           w == write_events_to_timescale(got.conn, df, "l1transactions", fault)
       IN  IF raises \/ is_empty(df)
           THEN /\ last' = IF raises THEN "fetch_error" ELSE "empty"
                /\ UNCHANGED <<connvars, link>>
           ELSE IF got.raised
           THEN /\ last' = "connect_error"
                /\ UNCHANGED <<connvars, link>>
           ELSE /\ last' = w.outcome
                /\ SetConn(w.conn)
                /\ link' = "open"
    /\ UNCHANGED <<stream, changed, seen, clean, typed, matviews, retry_count, task, cycle,
                   consecutive, reset_from, succeeded, exit_code, retriedvars,
                   viewvars>>

\* await asyncio.sleep(30) is over: the next cycle
L1Sleep ==
    /\ pc = "l1_sleep"
    /\ pc' = "l1_cycle"
    /\ UNCHANGED <<connvars, link, matviews, retry_count, task, cycle, consecutive,
                   reset_from, succeeded, exit_code, writervars, retriedvars, viewvars>>

\* the process is interrupted while main() awaits (the fetch or the sleep):
\* the finally clause closes the connection
L1Cancel ==
    /\ pc \in {"l1_fetching", "l1_sleep"}
    /\ pc' = "cancelled"
    /\ SetConn(ConnClose(Conn))
    /\ link' = close(link)
    /\ exit_code' = ExitStatus("KeyboardInterrupt")
    /\ UNCHANGED <<matviews, retry_count, task, cycle, consecutive, reset_from, succeeded,
                   writervars, retriedvars, viewvars>>

NextL1 ==
    \/ \E connects \in BOOLEAN : L1Start(connects)
    \/ \E connects \in BOOLEAN : \E fault \in {"none", "max", "check", "query", "lost"} :
          L1Cycle(connects, fault)
    \/ \E raises \in BOOLEAN : \E df \in L1Results : \E connects \in BOOLEAN :
          \E fault \in Faults : L1Fetched(raises, df, connects, fault)
    \/ L1Sleep
    \/ L1Cancel
    \/ ConnectionLost

SpecL1 == InitL1 /\ [][NextL1]_vars

(***************************************************************************)
(* Properties of the L1-transaction pipeline (SpecL1).                     *)
(***************************************************************************)
\* C37: get_transaction_hashes never raises, and returns an empty list
\* whenever openedcommitmentstoredall is absent or a query fails (the server
\* fails a statement, the transaction is aborted, or the link is lost and
\* not restored); fetch_txs is awaited and l1transactions is written only
\* for a non-empty list; no error of get_transaction_hashes or
\* process_l1_transactions leaves the loop: a cycle ends at the sleep, and
\* the sleep is followed by the next cycle unless the process is interrupted
C37_L1CycleNeverFails ==
    /\ [] ( called.fn = "get_transaction_hashes"
             => /\ ~called.raised
                /\ (\/ ~called.views["openedcommitmentstoredall"].exists
                    \/ called.fault # <<"none">>
                    \/ called.tx = "INERROR") => called.result = {} )
    /\ [][ (pc = "l1_cycle" /\ pc' # pc /\ link' = "broken") => called'.result = {} ]_vars
    /\ [][ (produced' # produced \/ last' # last \/ db' # db)
            => (pc = "l1_fetching" /\ called.result # {}) ]_vars
    /\ [][ /\ (pc = "l1_cycle" /\ pc' # pc)
                => pc' = IF called'.result = {} THEN "l1_sleep" ELSE "l1_fetching"
           /\ (pc = "l1_fetching" /\ pc' # pc) => pc' \in {"l1_sleep", "cancelled"}
           /\ (pc = "l1_sleep" /\ pc' # pc) => pc' \in {"l1_cycle", "cancelled"}
           /\ (pc \in {"l1_cycle", "l1_fetching", "l1_sleep"} /\ pc' # "cancelled")
                => (link' # "closed" /\ exit_code' = NotExited) ]_vars

\* the view held a row the query would have selected, the server failed the
\* query, the list was empty, nothing was fetched or written, and after the
\* sleep main() stands at the head of the next cycle
C37_Witness ==
    /\ pc = "l1_cycle"
    /\ called.fn = "get_transaction_hashes"
    /\ called.fault = <<"query">>
    /\ called.views["openedcommitmentstoredall"].rows # {}
    /\ called.result = {}
    /\ ~db["l1transactions"].exists
    /\ ~produced
    /\ last = "none"
    /\ link = "open"

=============================================================================
